---- MODULE Spec2Model ----
(***************************************************************************)
(* The risk-managed trade lifecycle engine of the repository: the          *)
(* PositionSizer risk state, the TradeExecutor entry path, the TradeCloser *)
(* exit path and the two TradingBot instances that drive them (the one     *)
(* BotRunner starts as the periodic scan loop and the one TelegramBot      *)
(* builds for its manual commands), against one broker account.            *)
(*                                                                         *)
(* Units.  Time is counted in ticks.  Prices are integers in points of     *)
(* 0.0001; a pip is 1 point, or 100 points for a JPY-quoted instrument.    *)
(* Confidence and percentages are integers in hundredths.  Money is an     *)
(* integer.  None is -1 (no value: Python's None).                         *)
(***************************************************************************)
EXTENDS Integers, Sequences, FiniteSets, TLC

(* ------------------------------- state -------------------------------- *)
VARIABLES
    now,             \* the clock (datetime.utcnow()), in ticks
    trades,          \* the broker's account: trade id -> trade
    trade_state,     \* PositionSizer.trade_state of each TradingBot
    state_file,      \* trade_state.json: <<>> (absent) or <<its content>>
    trailing_stops,  \* TradeCloser.trailing_stops of each TradingBot
    closed_trades,   \* TradeCloser.closed_trades of each TradingBot
    daily_stats,     \* TradeCloser.daily_stats of each TradingBot
    is_running,      \* TradingBot.is_running of each TradingBot
    last_scan_time,  \* TradingBot.last_scan_time of the scan loop's bot
    next_cycle,      \* when the scan loop's asyncio.sleep(scan_interval) ends
    pc,              \* the await each bot's running operation is suspended at
    queue,           \* the trades or instruments its loop has still to process
    attempt,         \* `attempt` of the _make_request it is suspended in
    pending,         \* unrealized_pl of the trade being closed
    results,         \* the `results` dict of the running operation
    call_fills,      \* orders the broker filled for the bot's current execute_trade
    ops,             \* cycles begun (session_stats['scans_completed']), commands received
    calls,           \* PositionSizer calls made (SpecSizer)
    last_call,       \* the broker call each bot last completed, and its `success`
    input,           \* the arguments of the function a function-level specification applies
    output,          \* what its calls returned, in order
    requests         \* the broker requests of each bot's latest entry, where a specification logs them

vars == <<now, trades, trade_state, state_file, trailing_stops, closed_trades, daily_stats, is_running, last_scan_time, next_cycle, pc, queue, attempt, pending, results, call_fills, ops, calls, last_call, input, output, requests>>

(* ------------------------------ bounds -------------------------------- *)
\* Last tick of the clock in the system specification.
MaxTime == 1
\* Last tick of the clock in the single-engine and PositionSizer specifications.
MaxTimeSolo == 2
\* Orders the broker fills in one run of the system specification.
MaxTrades == 2
\* Orders the broker fills in one run of the single-engine specification.
MaxTradesSolo == 2
\* Scan cycles the loop runs, and commands the TelegramBot receives.
MaxOps == 1
\* Orders the broker fills in one run of the scan-entries specification.
MaxTradesEntries == 3
\* Commands the TelegramBot receives in the single-engine specification.
MaxOpsSolo == 3
\* Scan cycles the loop runs in the scan-loop specification.
MaxOpsScan == 2
\* Calls of the PositionSizer interface in one run of SpecSizer.
MaxCalls == 7
MaxSizings == 3
\* Mutating calls (each ending in _save_state) in one run of SpecFile.
MaxSaves == 2
\* The length of a calendar day, in ticks.
day_length == 2
\* PositionSizer(max_open_trades=100), position_sizer.py:18, scaled down.
max_open_trades == 1
\* The same maximum where a specification keeps it above the scan loop's
\* limit, as 100 is above 5: room for every entry of one scan cycle.
max_open_trades_scan == 3
\* trade_cooldown_minutes = 0.1 (6 s), position_sizer.py:26, in ticks.
trade_cooldown == 1
\* scan_interval = 7 s, trading_bot.py:30, in ticks (longer than the cooldown).
scan_interval == 2
\* the 30 s entry rate limit of _should_execute_trades, trading_bot.py:121, in ticks.
entry_rate_limit == 2
\* max_trade_duration = 4 h, trade_closer.py:32, in ticks.
max_trade_duration == 1
\* the "conservative limit" of _should_execute_trades, trading_bot.py:130
\* (5 against max_open_trades = 100), scaled down with max_open_trades.
scan_open_limit == 1
\* the circuit breaker consecutive_losses >= 5, position_sizer.py:184, scaled down.
loss_breaker == 2

(* ------------------------- program constants -------------------------- *)
None == -1
max_drawdown == 10          \* 0.10, in hundredths
max_daily_loss == 2         \* 0.02, in hundredths
min_confidence == 50        \* 0.5, in hundredths
min_risk == 10000           \* 0.01, in millionths
max_risk == 30000           \* 0.03, in millionths
kelly_min_trades == 10      \* total_trades < 10
max_attempts == 3           \* for attempt in range(3)
best_count == 3             \* get_best_instruments(count=3)
trailing_stop_pips == 15
min_profit_threshold == 3
max_loss_pips == 30
min_stop_loss_pips == 10
max_stop_loss_pips == 50
\* self.max_trades_per_scan = 2, trading_bot.py:31 (assigned, read nowhere).
max_trades_per_scan == 2
min_risk_reward == 12       \* 1.2, in tenths

Bots == {"scan", "manual"}
Instruments == {"EUR_USD"}
JPYQuoted == {"USD_JPY"}
TradeIds == 1..(CHOOSE m \in {MaxTrades, MaxTradesSolo, MaxTradesEntries} : \A n \in {MaxTrades, MaxTradesSolo, MaxTradesEntries} : n <= m)

\* self.max_open_trades (position_sizer.py:23): the constructor's argument,
\* which a specification may fix in `input`.
self_max_open_trades ==
    IF "max_open_trades" \in DOMAIN input THEN input.max_open_trades ELSE max_open_trades

\* pip_size = 0.01 if instrument.endswith("JPY") else 0.0001, in points.
pip_size(instrument) == IF instrument \in JPYQuoted THEN 100 ELSE 1

(* --------------------- inputs the broker may return ------------------- *)
BasePrice(instrument) == IF instrument \in JPYQuoted THEN 1500000 ELSE 11000
\* Price moves, in pips from the base price, kept off the exit thresholds.
PipMoves == {-35, 0, 20}
Prices(instrument) == {BasePrice(instrument) + m * pip_size(instrument) : m \in PipMoves}
\* Orders are filled at the base price.
FillPrices(instrument) == {BasePrice(instrument)}
Equities == {1000, 850}
Balances == {1000}
Margins == {5}
\* unrealizedPL and initialMarginRequired of a trade in get_open_trades.
PLs == {-10, 30}
InitialMargins == {20}
\* score - 0.5 of a selected instrument (score > 0.5), in hundredths.
Boosts == {20}
\* What _calculate_optimal_stop_loss returns (within its bounds), in pips.
StopLosses == {min_stop_loss_pips}

(* ----------------------------- rationals ------------------------------ *)
RECURSIVE Gcd(_, _)
Gcd(a, b) == IF b = 0 THEN a ELSE Gcd(b, a % b)
Abs(x) == IF x < 0 THEN -x ELSE x
Min(a, b) == IF a < b THEN a ELSE b
Max(a, b) == IF a > b THEN a ELSE b
\* The rational n/d (d > 0) in lowest terms.
Rat(n, d) ==
    LET g == Gcd(Abs(n), d)
    IN  IF n = 0 THEN [n |-> 0, d |-> 1] ELSE [n |-> n \div g, d |-> d \div g]
Zero == [n |-> 0, d |-> 1]
RatLess(x, y) == x.n * y.d < y.n * x.d
\* int(u * x) for u >= 0 and a rational x >= 0.
ScaleInt(u, x) == (u * x.n) \div x.d

(* --------------------------- PositionSizer ---------------------------- *)
\* The defaultdict factory of trade_state["performance"].
DefaultPerformance ==
    [wins |-> 0, losses |-> 0, confidence |-> 70, avg_win |-> Zero,
     avg_loss |-> Zero, total_trades |-> 0]

\* trade_state as __init__ builds it (no state file to load).
DefaultTradeState ==
    [last_trade_time |-> [i \in Instruments |-> None],
     open_trades |-> 0,
     daily_stats |-> [date |-> 0, trades |-> 0, wins |-> 0, losses |-> 0, pnl |-> 0, max_loss |-> 0],
     peak_equity |-> 0,
     performance |-> [i \in {} |-> DefaultPerformance],
     risk_metrics |-> [current_drawdown |-> Zero, consecutive_losses |-> 0,
                       max_consecutive_losses |-> 0]]

\* trade_state["performance"][instrument]: a missing key is created.
PerfOf(ts, instrument) ==
    IF instrument \in DOMAIN ts.performance THEN ts.performance[instrument]
    ELSE DefaultPerformance

WithPerf(ts, instrument, perf) ==
    [ts EXCEPT !.performance =
        [i \in DOMAIN ts.performance \cup {instrument} |->
            IF i = instrument THEN perf ELSE ts.performance[i]]]

\* datetime.now().date() at time t.
Today(t) == t \div day_length

\* _reset_daily_stats (its write of risk_metrics["daily_loss"], a key nothing
\* reads, is left out).
reset_daily_stats(ts, today) ==
    [ts EXCEPT !.daily_stats = [date |-> today, trades |-> 0, wins |-> 0, losses |-> 0, pnl |-> 0, max_loss |-> 0]]

\* The top-level keys of trade_state in the order json.dump writes them.
StateKeys == <<"last_trade_time", "open_trades", "daily_stats", "peak_equity", "performance", "risk_metrics">>
\* The file after the first k keys of ts reached it.
Written(ts, k) == [f \in {StateKeys[j] : j \in 1..k} |-> ts[f]]
\* A file content json.load accepts: the whole object.
Complete(data) == DOMAIN data = {StateKeys[j] : j \in 1..Len(StateKeys)}
\* A last_trade_time entry datetime.fromisoformat rejects.
BadStamp == -2

\* trade_state after PositionSizer.__init__ on date `today`: the default
\* state, then _load_state on `file` (<<>>: no file).  json.load raises on a
\* cut-off file before anything is applied; a stamp fromisoformat rejects
\* raises after trade_state.update(data) has applied the whole content.
load_state(file, today) ==
    LET fresh == [DefaultTradeState EXCEPT !.daily_stats.date = today]
    IN  IF file = <<>> THEN fresh
        ELSE IF ~Complete(file[1]) THEN fresh
        ELSE IF \E i \in DOMAIN file[1].last_trade_time : file[1].last_trade_time[i] = BadStamp
        THEN file[1]
        ELSE IF file[1].daily_stats.date # today THEN reset_daily_stats(file[1], today)
        ELSE file[1]

\* update_equity_and_drawdown taking every equity as the new peak (no
\* comparison at line 114).
update_equity_and_drawdown_last(ts, equity) ==
    IF equity = None THEN ts
    ELSE [ts EXCEPT !.peak_equity = equity,
                    !.risk_metrics.current_drawdown =
                        IF equity > 0 THEN Rat(equity - equity, equity) ELSE @]

\* update_equity_and_drawdown, after get_equity returned `equity`.
update_equity_and_drawdown(ts, equity) ==
    IF equity = None THEN ts
    ELSE LET peak == IF equity > ts.peak_equity THEN equity ELSE ts.peak_equity
         IN  [ts EXCEPT !.peak_equity = peak,
                        !.risk_metrics.current_drawdown =
                            IF peak > 0 THEN Rat(peak - equity, peak) ELSE @]

\* update_performance without the min/max around the new confidence
\* (lines 132 and 137).
update_performance_unclamped(ts, instrument, won, pnl) ==
    LET old == PerfOf(ts, instrument)
        perf == IF won
                THEN [old EXCEPT !.total_trades = @ + 1,
                                 !.wins = @ + 1,
                                 !.avg_win = Rat(old.avg_win.n * old.wins + pnl * old.avg_win.d,
                                                 old.avg_win.d * (old.wins + 1)),
                                 !.confidence = @ + 5]
                ELSE [old EXCEPT !.total_trades = @ + 1,
                                 !.losses = @ + 1,
                                 !.avg_loss = Rat(old.avg_loss.n * old.losses + Abs(pnl) * old.avg_loss.d,
                                                  old.avg_loss.d * (old.losses + 1)),
                                 !.confidence = @ - 10]
        cl == IF won THEN 0 ELSE ts.risk_metrics.consecutive_losses + 1
        ts1 == WithPerf(ts, instrument, perf)
    IN  [ts1 EXCEPT !.risk_metrics.consecutive_losses = cl,
                    !.risk_metrics.max_consecutive_losses = Max(@, cl),
                    !.daily_stats.trades = @ + 1,
                    !.daily_stats.pnl = @ + pnl,
                    !.daily_stats.wins = IF won THEN @ + 1 ELSE @,
                    !.daily_stats.losses = IF won THEN @ ELSE @ + 1,
                    !.daily_stats.max_loss = IF won THEN @ ELSE Min(@, pnl)]

update_performance(ts, instrument, won, pnl) ==
    LET old == PerfOf(ts, instrument)
        perf == IF won
                THEN [old EXCEPT !.total_trades = @ + 1,
                                 !.wins = @ + 1,
                                 !.avg_win = Rat(old.avg_win.n * old.wins + pnl * old.avg_win.d,
                                                 old.avg_win.d * (old.wins + 1)),
                                 !.confidence = Min(100, @ + 5)]
                ELSE [old EXCEPT !.total_trades = @ + 1,
                                 !.losses = @ + 1,
                                 !.avg_loss = Rat(old.avg_loss.n * old.losses + Abs(pnl) * old.avg_loss.d,
                                                  old.avg_loss.d * (old.losses + 1)),
                                 !.confidence = Max(10, @ - 10)]
        cl == IF won THEN 0 ELSE ts.risk_metrics.consecutive_losses + 1
        ts1 == WithPerf(ts, instrument, perf)
    IN  [ts1 EXCEPT !.risk_metrics.consecutive_losses = cl,
                    !.risk_metrics.max_consecutive_losses = Max(@, cl),
                    !.daily_stats.trades = @ + 1,
                    !.daily_stats.pnl = @ + pnl,
                    !.daily_stats.wins = IF won THEN @ + 1 ELSE @,
                    !.daily_stats.losses = IF won THEN @ ELSE @ + 1,
                    !.daily_stats.max_loss = IF won THEN @ ELSE Min(@, pnl)]

get_confidence(ts, instrument) ==
    IF instrument \in DOMAIN ts.performance THEN ts.performance[instrument].confidence
    ELSE 50

\* trade_state["last_trade_time"].get(instrument)
last_trade(ts, instrument) ==
    IF instrument \in DOMAIN ts.last_trade_time THEN ts.last_trade_time[instrument] ELSE None

\* can_trade with its drawdown check (lines 175-177) left out.
can_trade_no_drawdown(ts, instrument, utcnow) ==
    LET last_time == last_trade(ts, instrument)
    IN  IF last_time # None /\ utcnow - last_time < trade_cooldown
        THEN [allowed |-> FALSE, reason |-> "Cooldown active"]
        ELSE IF ts.open_trades >= self_max_open_trades
        THEN [allowed |-> FALSE, reason |-> "Max open trades reached"]
        ELSE IF ts.daily_stats.max_loss * 100 < -max_daily_loss
        THEN [allowed |-> FALSE, reason |-> "Daily loss limit exceeded"]
        ELSE IF ts.risk_metrics.consecutive_losses >= loss_breaker
        THEN [allowed |-> FALSE, reason |-> "Too many consecutive losses"]
        ELSE [allowed |-> TRUE, reason |-> "OK"]

\* can_trade that checks the open trades before the cooldown.
can_trade_capacity_first(ts, instrument, utcnow) ==
    LET last_time == last_trade(ts, instrument)
        dd == ts.risk_metrics.current_drawdown
    IN  IF ts.open_trades >= self_max_open_trades
        THEN [allowed |-> FALSE, reason |-> "Max open trades reached"]
        ELSE IF last_time # None /\ utcnow - last_time < trade_cooldown
        THEN [allowed |-> FALSE, reason |-> "Cooldown active"]
        ELSE IF dd.n * 100 > max_drawdown * dd.d
        THEN [allowed |-> FALSE, reason |-> "Max drawdown exceeded"]
        ELSE IF ts.daily_stats.max_loss * 100 < -max_daily_loss
        THEN [allowed |-> FALSE, reason |-> "Daily loss limit exceeded"]
        ELSE IF ts.risk_metrics.consecutive_losses >= loss_breaker
        THEN [allowed |-> FALSE, reason |-> "Too many consecutive losses"]
        ELSE [allowed |-> TRUE, reason |-> "OK"]

can_trade(ts, instrument, utcnow) ==
    LET last_time == last_trade(ts, instrument)
        dd == ts.risk_metrics.current_drawdown
    IN  IF last_time # None /\ utcnow - last_time < trade_cooldown
        THEN [allowed |-> FALSE, reason |-> "Cooldown active"]
        ELSE IF ts.open_trades >= self_max_open_trades
        THEN [allowed |-> FALSE, reason |-> "Max open trades reached"]
        ELSE IF dd.n * 100 > max_drawdown * dd.d
        THEN [allowed |-> FALSE, reason |-> "Max drawdown exceeded"]
        ELSE IF ts.daily_stats.max_loss * 100 < -max_daily_loss
        THEN [allowed |-> FALSE, reason |-> "Daily loss limit exceeded"]
        ELSE IF ts.risk_metrics.consecutive_losses >= loss_breaker
        THEN [allowed |-> FALSE, reason |-> "Too many consecutive losses"]
        ELSE [allowed |-> TRUE, reason |-> "OK"]

record_trade(ts, instrument, utcnow) ==
    [ts EXCEPT !.last_trade_time = [i \in DOMAIN @ \cup {instrument} |-> IF i = instrument THEN utcnow ELSE @[i]],
               !.open_trades = @ + 1]

close_trade(ts, instrument) ==
    [ts EXCEPT !.open_trades = Max(0, @ - 1)]

\* get_risk_summary()["can_trade"]
risk_summary_can_trade(ts) ==
    LET dd == ts.risk_metrics.current_drawdown
    IN  dd.n * 100 <= max_drawdown * dd.d

\* _calculate_volatility_adjustment, in thousandths.
volatility_adjustment(ts, confidence) ==
    LET base == IF confidence < 60 THEN 1500 ELSE 1000
        cl == ts.risk_metrics.consecutive_losses
        adj == IF cl > 0 THEN (base * (10 + cl)) \div 10 ELSE base
    IN  Min(adj, 2500)

\* _calculate_kelly_adjustment, a rational; it reads performance[instrument].
kelly_adjustment(ts, instrument) ==
    LET perf == PerfOf(ts, instrument)
        aw == IF perf.avg_win.n > 0 THEN perf.avg_win ELSE [n |-> 1, d |-> 1]
        al == IF perf.avg_loss.n > 0 THEN perf.avg_loss ELSE [n |-> 1, d |-> 1]
        \* b = avg_win / avg_loss, p = wins / total, q = 1 - p
        bn == aw.n * al.d
        bd == aw.d * al.n
        p == perf.wins
        t == perf.total_trades
        \* kelly = (b*p - q) / b = (bn*p - bd*(t - p)) / (bn * t)
        kn == bn * p - bd * (t - p)
        kd == bn * t
        \* conservative = max(0, min(kelly * 0.5, 0.25))
        half == IF kn <= 0 THEN Zero ELSE Rat(kn, 2 * kd)
        cons == IF RatLess([n |-> 1, d |-> 4], half) THEN [n |-> 1, d |-> 4] ELSE half
    IN  IF perf.total_trades < kelly_min_trades THEN [n |-> 1, d |-> 2]
        ELSE IF cons.n > 0 THEN cons ELSE [n |-> 1, d |-> 10]

\* adjusted_confidence of calculate_units (line 218), in hundredths.
adjusted_confidence(ts, instrument, boost) ==
    Min(100, get_confidence(ts, instrument) + boost)

\* risk_percentage of calculate_units (lines 225-226), in millionths.
risk_percentage(adjusted) ==
    Min(Max(min_risk + ((max_risk - min_risk) * adjusted) \div 100, min_risk), max_risk)

\* units_by_risk of calculate_units (lines 229-245):
\* int(balance * risk_percentage / (stop_loss_pips * volatility * pip_value)),
\* the risk in ten-thousandths and the volatility in hundredths.
units_by_risk(ts, instrument, stop_loss_pips, boost, balance) ==
    LET adjusted == adjusted_confidence(ts, instrument, boost)
        risk == risk_percentage(adjusted)
        vol == volatility_adjustment(ts, adjusted)
    IN  (balance * (risk \div 100) * 100) \div (stop_loss_pips * (vol \div 10) * pip_size(instrument))

\* max_units_margin of calculate_units (line 254): int(margin / price * 0.8).
max_units_margin(margin, price) == (margin * 8000) \div price

\* calculate_units that takes the larger of its two ceilings.
units_for_larger(ts, instrument, stop_loss_pips, boost, utcnow, balance, margin, price) ==
    LET by_risk == units_by_risk(ts, instrument, stop_loss_pips, boost, balance)
        by_margin == max_units_margin(margin, price)
        units == ScaleInt(Max(by_risk, by_margin), kelly_adjustment(ts, instrument))
    IN  IF ~can_trade(ts, instrument, utcnow).allowed THEN 0
        ELSE IF balance = None THEN 0
        ELSE IF adjusted_confidence(ts, instrument, boost) < min_confidence THEN 0
        ELSE IF margin = None THEN 0
        ELSE IF price = None THEN 0
        ELSE IF units < 1 THEN 0
        ELSE units

\* calculate_units after its equity refresh: the unit count for the values
\* the broker returned (None: unavailable).
units_for(ts, instrument, stop_loss_pips, boost, utcnow, balance, margin, price) ==
    LET adjusted == adjusted_confidence(ts, instrument, boost)
        by_risk == units_by_risk(ts, instrument, stop_loss_pips, boost, balance)
        by_margin == max_units_margin(margin, price)
        units == ScaleInt(Min(by_risk, by_margin), kelly_adjustment(ts, instrument))
    IN  IF ~can_trade(ts, instrument, utcnow).allowed THEN 0
        ELSE IF balance = None THEN 0
        ELSE IF adjusted < min_confidence THEN 0
        ELSE IF margin = None THEN 0
        ELSE IF price = None THEN 0
        ELSE IF units < 1 THEN 0
        ELSE units

\* The broker requests one entry issues from _calculate_optimal_stop_loss to
\* the end of calculate_units, in order; ts is trade_state after the equity
\* refresh.
entry_requests(ts, instrument, boost, utcnow, balance, margin) ==
    <<"get_candles", "get_equity">> \o
    (IF ~can_trade(ts, instrument, utcnow).allowed THEN <<>>
     ELSE <<"get_account_balance">> \o
          (IF balance = None THEN <<>>
           ELSE IF Min(100, get_confidence(ts, instrument) + boost) < min_confidence THEN <<>>
           ELSE <<"get_margin_available">> \o
                (IF margin = None THEN <<>> ELSE <<"get_price">>)))

\* trade_state after calculate_units: _calculate_kelly_adjustment creates the
\* instrument's performance entry when the call gets that far.
sized_state(ts, instrument, boost, utcnow, balance, margin, price) ==
    IF /\ can_trade(ts, instrument, utcnow).allowed
       /\ balance # None
       /\ Min(100, get_confidence(ts, instrument) + boost) >= min_confidence
       /\ margin # None
       /\ price # None
    THEN WithPerf(ts, instrument, PerfOf(ts, instrument))
    ELSE ts

(* ----------------------------- TradeCloser ---------------------------- *)
\* trailing_stops[trade_id] as _evaluate_trade creates it.
NewTrailingStop(entry_price) ==
    [entry_price |-> entry_price, highest_price |-> entry_price, lowest_price |-> entry_price]

update_trailing_stop(stops, trade_id, current_price, is_short) ==
    IF trade_id \notin DOMAIN stops THEN stops
    ELSE IF is_short
    THEN IF current_price < stops[trade_id].lowest_price
         THEN [stops EXCEPT ![trade_id].lowest_price = current_price] ELSE stops
    ELSE IF current_price > stops[trade_id].highest_price
         THEN [stops EXCEPT ![trade_id].highest_price = current_price] ELSE stops

\* trailing_stops after lines 106-115 of _evaluate_trade.
evaluated_stops(stops, trade_id, entry_price, current_price, is_short) ==
    LET init == IF trade_id \in DOMAIN stops THEN stops
                ELSE [t \in DOMAIN stops \cup {trade_id} |->
                        IF t = trade_id THEN NewTrailingStop(entry_price) ELSE stops[t]]
    IN  update_trailing_stop(init, trade_id, current_price, is_short)

\* del trailing_stops[trade_id]
without_stop(stops, trade_id) == [t \in DOMAIN stops \ {trade_id} |-> stops[t]]

NoStops == [t \in {} |-> NewTrailingStop(0)]

\* _check_exit_conditions with its time-based exit (lines 155-157) left out.
check_exit_conditions_no_duration(stops, trade_id, instrument, current_price, entry_price, unrealized_pl, initial_margin, duration, is_short, momentum) ==
    LET pip == pip_size(instrument)
        move == Abs(current_price - entry_price)
        ts == stops[trade_id]
        distance == trailing_stop_pips * pip
    IN  IF /\ move >= min_profit_threshold * pip
           /\ initial_margin > 0
           /\ unrealized_pl * 10 >= min_risk_reward * initial_margin
        THEN [should_exit |-> TRUE, reason |-> "Profit target reached"]
        ELSE IF /\ trade_id \in DOMAIN stops
                /\ IF is_short THEN current_price >= ts.lowest_price + distance
                   ELSE current_price <= ts.highest_price - distance
        THEN [should_exit |-> TRUE, reason |-> "Trailing stop hit"]
        ELSE IF move >= max_loss_pips * pip
        THEN [should_exit |-> TRUE, reason |-> "Max loss exceeded"]
        ELSE IF momentum
        THEN [should_exit |-> TRUE, reason |-> "Momentum reversal detected"]
        ELSE [should_exit |-> FALSE, reason |-> "No exit conditions met"]

\* _check_exit_conditions with the hard loss cap tested before the trailing stop.
check_exit_conditions_loss_first(stops, trade_id, instrument, current_price, entry_price, unrealized_pl, initial_margin, duration, is_short, momentum) ==
    LET pip == pip_size(instrument)
        move == Abs(current_price - entry_price)
        ts == stops[trade_id]
        distance == trailing_stop_pips * pip
    IN  IF duration > max_trade_duration
        THEN [should_exit |-> TRUE, reason |-> "Max duration exceeded"]
        ELSE IF /\ move >= min_profit_threshold * pip
                /\ initial_margin > 0
                /\ unrealized_pl * 10 >= min_risk_reward * initial_margin
        THEN [should_exit |-> TRUE, reason |-> "Profit target reached"]
        ELSE IF move >= max_loss_pips * pip
        THEN [should_exit |-> TRUE, reason |-> "Max loss exceeded"]
        ELSE IF /\ trade_id \in DOMAIN stops
                /\ IF is_short THEN current_price >= ts.lowest_price + distance
                   ELSE current_price <= ts.highest_price - distance
        THEN [should_exit |-> TRUE, reason |-> "Trailing stop hit"]
        ELSE IF momentum
        THEN [should_exit |-> TRUE, reason |-> "Momentum reversal detected"]
        ELSE [should_exit |-> FALSE, reason |-> "No exit conditions met"]

\* _check_exit_conditions whose later exits are only reached when the price
\* has moved less than min_profit_threshold: a move that fails the
\* risk/reward gate ends the checks.
check_exit_conditions_rr_gated(stops, trade_id, instrument, current_price, entry_price, unrealized_pl, initial_margin, duration, is_short, momentum) ==
    LET pip == pip_size(instrument)
        move == Abs(current_price - entry_price)
        ts == stops[trade_id]
        distance == trailing_stop_pips * pip
    IN  IF duration > max_trade_duration
        THEN [should_exit |-> TRUE, reason |-> "Max duration exceeded"]
        ELSE IF move >= min_profit_threshold * pip
        THEN IF initial_margin > 0 /\ unrealized_pl * 10 >= min_risk_reward * initial_margin
             THEN [should_exit |-> TRUE, reason |-> "Profit target reached"]
             ELSE [should_exit |-> FALSE, reason |-> "No exit conditions met"]
        ELSE IF /\ trade_id \in DOMAIN stops
                /\ IF is_short THEN current_price >= ts.lowest_price + distance
                   ELSE current_price <= ts.highest_price - distance
        THEN [should_exit |-> TRUE, reason |-> "Trailing stop hit"]
        ELSE IF move >= max_loss_pips * pip
        THEN [should_exit |-> TRUE, reason |-> "Max loss exceeded"]
        ELSE IF momentum
        THEN [should_exit |-> TRUE, reason |-> "Momentum reversal detected"]
        ELSE [should_exit |-> FALSE, reason |-> "No exit conditions met"]

\* _check_exit_conditions; `momentum` is what _check_momentum_reversal returns.
check_exit_conditions(stops, trade_id, instrument, current_price, entry_price, unrealized_pl, initial_margin, duration, is_short, momentum) ==
    LET pip == pip_size(instrument)
        move == Abs(current_price - entry_price)
        ts == stops[trade_id]
        distance == trailing_stop_pips * pip
    IN  IF duration > max_trade_duration
        THEN [should_exit |-> TRUE, reason |-> "Max duration exceeded"]
        ELSE IF /\ move >= min_profit_threshold * pip
                /\ initial_margin > 0
                /\ unrealized_pl * 10 >= min_risk_reward * initial_margin
        THEN [should_exit |-> TRUE, reason |-> "Profit target reached"]
        ELSE IF /\ trade_id \in DOMAIN stops
                /\ IF is_short THEN current_price >= ts.lowest_price + distance
                   ELSE current_price <= ts.highest_price - distance
        THEN [should_exit |-> TRUE, reason |-> "Trailing stop hit"]
        ELSE IF move >= max_loss_pips * pip
        THEN [should_exit |-> TRUE, reason |-> "Max loss exceeded"]
        ELSE IF momentum
        THEN [should_exit |-> TRUE, reason |-> "Momentum reversal detected"]
        ELSE [should_exit |-> FALSE, reason |-> "No exit conditions met"]

NoCloserStats ==
    [trades_closed |-> 0, wins |-> 0, losses |-> 0, total_pnl |-> 0,
     max_profit |-> 0, max_loss |-> 0]

\* daily_stats after _update_performance_tracking(trade_id, pnl, duration).
tracked_stats(stats, pnl) ==
    [stats EXCEPT !.trades_closed = @ + 1,
                  !.total_pnl = @ + pnl,
                  !.wins = IF pnl > 0 THEN @ + 1 ELSE @,
                  !.max_profit = IF pnl > 0 THEN Max(@, pnl) ELSE @,
                  !.losses = IF pnl > 0 THEN @ ELSE @ + 1,
                  !.max_loss = IF pnl > 0 THEN @ ELSE Min(@, pnl)]

\* The record _update_performance_tracking appends to closed_trades.
trade_record(trade_id, pnl) == [trade_id |-> trade_id, pnl |-> pnl, won |-> pnl > 0]

\* _close_trade that books the close whatever oanda.close_trade returned.
close_booked_always(ts, instrument, success) == close_trade(ts, instrument)

\* trade_state after _close_trade, once oanda.close_trade returned `success`.
close_booked(ts, instrument, success) ==
    IF success THEN close_trade(ts, instrument) ELSE ts

\* trade_state after execute_trade, once oanda.create_trade returned `success`.
entry_booked(ts, instrument, utcnow, success) ==
    IF success THEN record_trade(ts, instrument, utcnow) ELSE ts

NoTrade == [status |-> "none", instrument |-> "EUR_USD", units |-> 0, price |-> 0, openTime |-> 0]
NoResults == [trades_closed |-> 0, trades_executed |-> 0, errors |-> 0]
NoCall == [call |-> "none", success |-> FALSE]
NoInput == [function |-> "none"]

OpenTrades == {t \in TradeIds : trades[t].status = "open"}
FilledTrades == {t \in TradeIds : trades[t].status # "none"}

\* The open trades in the order get_open_trades lists them.
RECURSIVE SeqOfSet(_)
SeqOfSet(S) ==
    IF S = {} THEN <<>>
    ELSE LET m == CHOOSE x \in S : \A y \in S : x <= y
         IN  <<m>> \o SeqOfSet(S \ {m})

\* What one attempt of _make_request can meet (oanda_client.py:33-52).
Outcomes == {"ok", "error", "rate_limited", "timeout", "timeout_after_delivery"}
\* The outcomes after which the loop of _make_request tries again.
Retried == {"rate_limited", "timeout", "timeout_after_delivery"}

\* The engine after construction.
EngineInit ==
    /\ now = 0
    /\ trades = [t \in TradeIds |-> NoTrade]
    /\ trade_state = [b \in Bots |-> DefaultTradeState]
    /\ state_file = <<>>
    /\ trailing_stops = [b \in Bots |-> NoStops]
    /\ closed_trades = [b \in Bots |-> <<>>]
    /\ daily_stats = [b \in Bots |-> NoCloserStats]
    /\ is_running = [b \in Bots |-> FALSE]
    /\ last_scan_time = None
    /\ next_cycle = 0
    /\ pc = [b \in Bots |-> "idle"]
    /\ queue = [b \in Bots |-> <<>>]
    /\ attempt = [b \in Bots |-> 0]
    /\ pending = [b \in Bots |-> 0]
    /\ results = [b \in Bots |-> NoResults]
    /\ call_fills = [b \in Bots |-> 0]
    /\ ops = [b \in Bots |-> 0]
    /\ calls = 0
    /\ last_call = [b \in Bots |-> NoCall]
    /\ requests = [b \in Bots |-> <<>>]

Init ==
    /\ EngineInit
    /\ input = NoInput
    /\ output = <<>>

(* --------------------------- control flow ----------------------------- *)
\* _should_execute_trades (without its write of last_scan_time).
should_execute_trades(ts) ==
    /\ ~(last_scan_time # None /\ now - last_scan_time < entry_rate_limit)
    /\ risk_summary_can_trade(ts)
    /\ ~(ts.open_trades >= scan_open_limit)

\* The operation returns: the scan loop sleeps, a manual command is done.
Return(b) ==
    /\ pc' = [pc EXCEPT ![b] = "idle"]
    /\ queue' = [queue EXCEPT ![b] = <<>>]
    /\ results' = [results EXCEPT ![b] = NoResults]
    /\ next_cycle' = IF b = "scan" THEN now + scan_interval ELSE next_cycle

\* monitor_trades has returned: _run_scan_cycle (lines 94-112) asks
\* _should_execute_trades, run() (line 170) goes on to the entries.
AfterMonitor(b, ts, res) ==
    IF b = "scan" /\ ~should_execute_trades(ts)
    THEN Return(b) /\ UNCHANGED last_scan_time
    ELSE /\ pc' = [pc EXCEPT ![b] = "select"]
         /\ queue' = [queue EXCEPT ![b] = <<>>]
         /\ results' = [results EXCEPT ![b] = res]
         /\ last_scan_time' = IF b = "scan" THEN now ELSE last_scan_time
         /\ UNCHANGED next_cycle

\* monitor_trades that returns after the first trade of its list.
NextTrade_first_only(b, ts, res) == AfterMonitor(b, ts, res)

\* The loop of monitor_trades goes to its next trade.
NextTrade(b, ts, res) ==
    IF Tail(queue[b]) # <<>>
    THEN /\ pc' = [pc EXCEPT ![b] = "evaluate"]
         /\ queue' = [queue EXCEPT ![b] = Tail(queue[b])]
         /\ results' = [results EXCEPT ![b] = res]
         /\ UNCHANGED <<last_scan_time, next_cycle>>
    ELSE AfterMonitor(b, ts, res)

\* A loop of analyze_and_execute_trades that returns at the first error.
NextInstrument_halt_on_error(b, res) ==
    IF Tail(queue[b]) # <<>> /\ res.errors = results[b].errors
    THEN /\ pc' = [pc EXCEPT ![b] = "sizing"]
         /\ queue' = [queue EXCEPT ![b] = Tail(queue[b])]
         /\ results' = [results EXCEPT ![b] = res]
         /\ UNCHANGED next_cycle
    ELSE Return(b)

\* The loop of analyze_and_execute_trades goes to its next instrument.
NextInstrument(b, res) ==
    IF Tail(queue[b]) # <<>>
    THEN /\ pc' = [pc EXCEPT ![b] = "sizing"]
         /\ queue' = [queue EXCEPT ![b] = Tail(queue[b])]
         /\ results' = [results EXCEPT ![b] = res]
         /\ UNCHANGED next_cycle
    ELSE Return(b)

(* ------------------------------ actions ------------------------------- *)
\* TradingBot.start of the scan loop's bot (bot_runner.py:62).
Start ==
    /\ ~is_running["scan"]
    /\ is_running' = [is_running EXCEPT !["scan"] = TRUE]
    /\ UNCHANGED <<now, trades, trade_state, state_file, trailing_stops, closed_trades, daily_stats, last_scan_time, next_cycle, pc, queue, attempt, pending, results, call_fills, ops, calls, last_call, input, output, requests>>

\* A cycle begins, _run_scan_cycle in the scan loop or run() on /maketrade,
\* and get_equity answers: the drawdown is refreshed and the cycle returns
\* when get_risk_summary()["can_trade"] is False.
CycleBegin(b, max_ops) ==
    /\ pc[b] = "idle"
    /\ b = "scan" => is_running[b] /\ now >= next_cycle
    /\ ops[b] < max_ops
    /\ ops' = [ops EXCEPT ![b] = @ + 1]
    /\ \E equity \in Equities \cup {None} :
        LET ts == update_equity_and_drawdown(trade_state[b], equity)
        IN  /\ trade_state' = [trade_state EXCEPT ![b] = ts]
            /\ state_file' = IF equity = None THEN state_file ELSE <<ts>>
            /\ IF risk_summary_can_trade(ts)
               THEN /\ pc' = [pc EXCEPT ![b] = "monitor"]
                    /\ UNCHANGED <<queue, results, next_cycle>>
               ELSE Return(b)
    /\ UNCHANGED <<now, trades, trailing_stops, closed_trades, daily_stats, is_running, last_scan_time, attempt, pending, call_fills, calls, last_call, input, output, requests>>

\* monitor_trades: get_open_trades answers (the list, or [] when it failed).
Monitor(b) ==
    /\ pc[b] = "monitor"
    /\ \E ok \in BOOLEAN :
        LET open_trades == IF ok THEN SeqOfSet(OpenTrades) ELSE <<>>
        IN  IF open_trades # <<>>
            THEN /\ pc' = [pc EXCEPT ![b] = "evaluate"]
                 /\ queue' = [queue EXCEPT ![b] = open_trades]
                 /\ UNCHANGED <<results, last_scan_time, next_cycle>>
            ELSE AfterMonitor(b, trade_state[b], results[b])
    /\ UNCHANGED <<now, trades, trade_state, state_file, trailing_stops, closed_trades, daily_stats, is_running, attempt, pending, call_fills, ops, calls, last_call, input, output, requests>>

\* _evaluate_trade that goes on to close the trade at the head of the list
\* when it has no price for it.
SkipTrade_close_unpriced(b) ==
    /\ pc' = [pc EXCEPT ![b] = "closing"]
    /\ attempt' = [attempt EXCEPT ![b] = 0]
    /\ pending' = [pending EXCEPT ![b] = 0]
    /\ UNCHANGED <<trailing_stops, queue, results, last_scan_time, next_cycle>>

\* _evaluate_trade without a price (lines 92-93): it returns action 'none'
\* and monitor_trades goes to its next trade.
SkipTrade(b) ==
    /\ NextTrade(b, trade_state[b], results[b])
    /\ UNCHANGED <<trailing_stops, attempt, pending>>

\* _evaluate_trade: get_price answers for the trade at the head of the list.
\* With `log`, requests[b] holds the price this evaluation read.
\* A record of get_open_trades that lacks a field _evaluate_trade indexes
\* raises, and monitor_trades (lines 73-77) appends the error and continues.
Evaluate(b, log) ==
    /\ pc[b] = "evaluate"
    /\ LET trade_id == Head(queue[b])
           trade == trades[trade_id]
       IN  \E current_price \in Prices(trade.instrument) \cup {None}, unrealized_pl \in PLs, initial_margin \in InitialMargins, momentum \in BOOLEAN, well_formed \in BOOLEAN :
            /\ requests' = IF log THEN [requests EXCEPT ![b] = <<[call |-> "get_price", trade_id |-> trade_id, price |-> current_price]>>]
                           ELSE requests
            /\ IF current_price = None
               THEN SkipTrade(b)
               ELSE IF ~well_formed
               THEN /\ NextTrade(b, trade_state[b], [results[b] EXCEPT !.errors = @ + 1])
                    /\ UNCHANGED <<trailing_stops, attempt, pending>>
               ELSE LET is_short == trade.units < 0
                        stops == evaluated_stops(trailing_stops[b], trade_id, trade.price, current_price, is_short)
                        exit_result == check_exit_conditions(stops, trade_id, trade.instrument, current_price, trade.price, unrealized_pl, initial_margin, now - trade.openTime, is_short, momentum)
                    IN  /\ trailing_stops' = [trailing_stops EXCEPT ![b] = stops]
                        /\ IF exit_result.should_exit
                           THEN /\ pc' = [pc EXCEPT ![b] = "closing"]
                                /\ attempt' = [attempt EXCEPT ![b] = 0]
                                /\ pending' = [pending EXCEPT ![b] = unrealized_pl]
                                /\ UNCHANGED <<queue, results, last_scan_time, next_cycle>>
                           ELSE /\ NextTrade(b, trade_state[b], results[b])
                                /\ UNCHANGED <<attempt, pending>>
    /\ UNCHANGED <<now, trades, trade_state, state_file, closed_trades, daily_stats, is_running, call_fills, ops, calls, last_call, input, output>>

\* The broker's account after a close request for trade_id reached it.
closed_at_broker(trade_id) ==
    IF trades[trade_id].status = "open"
    THEN [trades EXCEPT ![trade_id].status = "closed"] ELSE trades

\* TradeCloser._close_trade from _evaluate_trade: one attempt of the PUT of
\* oanda.close_trade answers.  When _make_request returns, a confirmed close
\* is booked (position_sizer.close_trade, _update_performance_tracking,
\* results['trades_closed']) and the loop goes on.
Closing(b) ==
    /\ pc[b] = "closing"
    /\ LET trade_id == Head(queue[b])
           instrument == trades[trade_id].instrument
       IN  \E o \in Outcomes :
            /\ o = "ok" => trades[trade_id].status = "open"
            /\ trades' = IF o \in {"ok", "timeout_after_delivery"} THEN closed_at_broker(trade_id) ELSE trades
            /\ IF o \in Retried /\ attempt[b] < max_attempts - 1
               THEN /\ attempt' = [attempt EXCEPT ![b] = @ + 1]
                    /\ UNCHANGED <<trade_state, state_file, trailing_stops, closed_trades, daily_stats, pending, pc, queue, results, last_scan_time, next_cycle, last_call>>
               ELSE LET success == o = "ok"
                        ts == close_booked(trade_state[b], instrument, success)
                    IN  /\ trade_state' = [trade_state EXCEPT ![b] = ts]
                        /\ state_file' = IF success THEN <<ts>> ELSE state_file
                        /\ trailing_stops' = IF success THEN [trailing_stops EXCEPT ![b] = without_stop(@, trade_id)] ELSE trailing_stops
                        /\ closed_trades' = IF success THEN [closed_trades EXCEPT ![b] = Append(@, trade_record(trade_id, pending[b]))] ELSE closed_trades
                        /\ daily_stats' = IF success THEN [daily_stats EXCEPT ![b] = tracked_stats(@, pending[b])] ELSE daily_stats
                        /\ attempt' = [attempt EXCEPT ![b] = 0]
                        /\ pending' = [pending EXCEPT ![b] = 0]
                        /\ last_call' = [last_call EXCEPT ![b] = [call |-> "close_trade", success |-> success]]
                        /\ NextTrade(b, ts, IF success THEN [results[b] EXCEPT !.trades_closed = @ + 1] ELSE results[b])
    /\ UNCHANGED <<now, is_running, call_fills, ops, calls, input, output, requests>>

\* force_close_all_trades on /closeall (the TelegramBot's bot):
\* get_open_trades answers; with nothing to close the trailing stops are
\* cleared and the command returns.
ForceBegin(b, max_ops) ==
    /\ b = "manual"
    /\ pc[b] = "idle"
    /\ ops[b] < max_ops
    /\ ops' = [ops EXCEPT ![b] = @ + 1]
    /\ \E ok \in BOOLEAN :
        LET open_trades == IF ok THEN SeqOfSet(OpenTrades) ELSE <<>>
        IN  IF open_trades # <<>>
            THEN /\ pc' = [pc EXCEPT ![b] = "force_closing"]
                 /\ queue' = [queue EXCEPT ![b] = open_trades]
                 /\ attempt' = [attempt EXCEPT ![b] = 0]
                 /\ UNCHANGED <<trailing_stops, results, next_cycle>>
            ELSE /\ trailing_stops' = [trailing_stops EXCEPT ![b] = NoStops]
                 /\ Return(b)
                 /\ UNCHANGED attempt
    /\ UNCHANGED <<now, trades, trade_state, state_file, closed_trades, daily_stats, is_running, last_scan_time, pending, call_fills, calls, last_call, input, output, requests>>

\* The loop of force_close_all_trades goes to its next trade, or clears the
\* trailing stops and returns (trade_closer.py:314-320).
ForceNext(b, stops, res) ==
    IF Tail(queue[b]) # <<>>
    THEN /\ queue' = [queue EXCEPT ![b] = Tail(queue[b])]
         /\ results' = [results EXCEPT ![b] = res]
         /\ trailing_stops' = [trailing_stops EXCEPT ![b] = stops]
         /\ UNCHANGED <<pc, next_cycle>>
    ELSE /\ trailing_stops' = [trailing_stops EXCEPT ![b] = NoStops]
         /\ Return(b)

\* TradeCloser._close_trade from force_close_all_trades: one attempt of the
\* PUT answers.  When _make_request returns, a confirmed close is booked
\* (position_sizer.close_trade, results['trades_closed']), a failed one is
\* added to results['errors'], and the loop goes on.
ForceClosing(b) ==
    /\ pc[b] = "force_closing"
    /\ LET trade_id == Head(queue[b])
           instrument == trades[trade_id].instrument
       IN  \E o \in Outcomes :
            /\ o = "ok" => trades[trade_id].status = "open"
            /\ trades' = IF o \in {"ok", "timeout_after_delivery"} THEN closed_at_broker(trade_id) ELSE trades
            /\ IF o \in Retried /\ attempt[b] < max_attempts - 1
               THEN /\ attempt' = [attempt EXCEPT ![b] = @ + 1]
                    /\ UNCHANGED <<trade_state, state_file, trailing_stops, pc, queue, results, next_cycle, last_call>>
               ELSE LET success == o = "ok"
                        ts == close_booked(trade_state[b], instrument, success)
                    IN  /\ trade_state' = [trade_state EXCEPT ![b] = ts]
                        /\ state_file' = IF success THEN <<ts>> ELSE state_file
                        /\ attempt' = [attempt EXCEPT ![b] = 0]
                        /\ last_call' = [last_call EXCEPT ![b] = [call |-> "close_trade", success |-> success]]
                        /\ ForceNext(b, IF success THEN without_stop(trailing_stops[b], trade_id) ELSE trailing_stops[b],
                                     IF success THEN [results[b] EXCEPT !.trades_closed = @ + 1] ELSE [results[b] EXCEPT !.errors = @ + 1])
    /\ UNCHANGED <<now, closed_trades, daily_stats, is_running, last_scan_time, pending, call_fills, ops, calls, input, output, requests>>

\* What get_best_instruments(count=3) can return of the instruments it
\* watches: distinct instruments.
ListsOf(watched) ==
    {s \in UNION {[1..n -> watched] : n \in 0..Min(best_count, Cardinality(watched))} :
        \A i, j \in DOMAIN s : i # j => s[i] # s[j]}
InstrumentLists == ListsOf(Instruments)

\* analyze_and_execute_trades: get_best_instruments answers.
Select(b, lists) ==
    /\ pc[b] = "select"
    /\ \E best_instruments \in lists :
        IF best_instruments # <<>>
        THEN /\ pc' = [pc EXCEPT ![b] = "sizing"]
             /\ queue' = [queue EXCEPT ![b] = best_instruments]
             /\ UNCHANGED <<results, next_cycle>>
        ELSE Return(b)
    /\ UNCHANGED <<now, trades, trade_state, state_file, trailing_stops, closed_trades, daily_stats, is_running, last_scan_time, attempt, pending, call_fills, ops, calls, last_call, input, output, requests>>

\* The instrument at the head of the list: _calculate_optimal_stop_loss and
\* calculate_units (equity refresh, can_trade, balance, margin, price), then
\* with units > 0 execute_trade up to its await of create_trade.  With `log`
\* the requests of the entry are recorded in `requests`.
Sizing(b, log) ==
    /\ pc[b] = "sizing"
    /\ LET instrument == Head(queue[b])
       IN  \E equity \in Equities \cup {None}, balance \in Balances \cup {None}, margin \in Margins \cup {None}, price \in Prices(instrument) \cup {None}, stop_loss_pips \in StopLosses, boost \in Boosts, price_again \in BOOLEAN :
            LET ts1 == update_equity_and_drawdown(trade_state[b], equity)
                units == units_for(ts1, instrument, stop_loss_pips, boost, now, balance, margin, price)
                ts2 == sized_state(ts1, instrument, boost, now, balance, margin, price)
            IN  /\ trade_state' = [trade_state EXCEPT ![b] = ts2]
                /\ state_file' = IF equity = None THEN state_file ELSE <<ts1>>
                /\ requests' = IF log THEN [requests EXCEPT ![b] = entry_requests(ts1, instrument, boost, now, balance, margin)]
                               ELSE requests
                /\ IF units > 0 /\ price_again
                   THEN /\ pc' = [pc EXCEPT ![b] = "submit"]
                        /\ attempt' = [attempt EXCEPT ![b] = 0]
                        /\ pending' = [pending EXCEPT ![b] = units]
                        /\ call_fills' = [call_fills EXCEPT ![b] = 0]
                        /\ UNCHANGED <<queue, results, next_cycle>>
                   ELSE /\ NextInstrument(b, IF units > 0 THEN [results[b] EXCEPT !.errors = @ + 1] ELSE results[b])
                        /\ UNCHANGED <<attempt, pending, call_fills>>
    /\ UNCHANGED <<now, trades, trailing_stops, closed_trades, daily_stats, is_running, last_scan_time, ops, calls, last_call, input, output>>

\* The broker's account after it filled a market order.
filled_at_broker(instrument, units, price) ==
    [trades EXCEPT ![Cardinality(FilledTrades) + 1] =
        [status |-> "open", instrument |-> instrument, units |-> units, price |-> price, openTime |-> now]]

\* execute_trade: one attempt of the POST of create_trade answers.  When
\* _make_request returns, a confirmed order is stamped by record_trade and
\* counted in results['trades_executed'].  `cap` bounds the fills.
Submit(b, cap) ==
    /\ pc[b] = "submit"
    /\ LET instrument == Head(queue[b])
       IN  \E o \in Outcomes, price \in FillPrices(instrument) :
            LET delivered == o \in {"ok", "timeout_after_delivery"}
            IN  /\ delivered => Cardinality(FilledTrades) < cap
                /\ trades' = IF delivered THEN filled_at_broker(instrument, pending[b], price) ELSE trades
                /\ call_fills' = IF delivered THEN [call_fills EXCEPT ![b] = @ + 1] ELSE call_fills
                /\ IF o \in Retried /\ attempt[b] < max_attempts - 1
                   THEN /\ attempt' = [attempt EXCEPT ![b] = @ + 1]
                        /\ UNCHANGED <<trade_state, state_file, pending, pc, queue, results, next_cycle, last_call>>
                   ELSE LET success == o = "ok"
                            ts == entry_booked(trade_state[b], instrument, now, success)
                        IN  /\ trade_state' = [trade_state EXCEPT ![b] = ts]
                            /\ state_file' = IF success THEN <<ts>> ELSE state_file
                            /\ attempt' = [attempt EXCEPT ![b] = 0]
                            /\ pending' = [pending EXCEPT ![b] = 0]
                            /\ last_call' = [last_call EXCEPT ![b] = [call |-> "create_trade", success |-> success]]
                            /\ NextInstrument(b, IF success THEN [results[b] EXCEPT !.trades_executed = @ + 1] ELSE [results[b] EXCEPT !.errors = @ + 1])
    /\ UNCHANGED <<now, trailing_stops, closed_trades, daily_stats, is_running, last_scan_time, ops, calls, input, output, requests>>

\* The broker closes a trade itself: its stopLossOnFill order is hit.
BrokerClose ==
    /\ \E trade_id \in OpenTrades : trades' = closed_at_broker(trade_id)
    /\ UNCHANGED <<now, trade_state, state_file, trailing_stops, closed_trades, daily_stats, is_running, last_scan_time, next_cycle, pc, queue, attempt, pending, results, call_fills, ops, calls, last_call, input, output, requests>>

\* Time passes.
Tick(max_time) ==
    /\ now < max_time
    /\ now' = now + 1
    /\ UNCHANGED <<trades, trade_state, state_file, trailing_stops, closed_trades, daily_stats, is_running, last_scan_time, next_cycle, pc, queue, attempt, pending, results, call_fills, ops, calls, last_call, input, output, requests>>

Next ==
    \/ Start
    \/ \E b \in Bots : CycleBegin(b, MaxOps)
    \/ \E b \in Bots : Monitor(b)
    \/ \E b \in Bots : Evaluate(b, FALSE)
    \/ \E b \in Bots : Closing(b)
    \/ \E b \in Bots : ForceBegin(b, MaxOps)
    \/ \E b \in Bots : ForceClosing(b)
    \/ \E b \in Bots : Select(b, InstrumentLists)
    \/ \E b \in Bots : Sizing(b, FALSE)
    \/ \E b \in Bots : Submit(b, MaxTrades)
    \/ BrokerClose
    \/ Tick(MaxTime)

Spec == Init /\ [][Next]_vars

\* One engine alone: the commands of the TelegramBot's bot, with the scan
\* loop not running.
NextSolo ==
    \/ CycleBegin("manual", MaxOpsSolo)
    \/ Monitor("manual")
    \/ Evaluate("manual", FALSE)
    \/ Closing("manual")
    \/ ForceBegin("manual", MaxOpsSolo)
    \/ ForceClosing("manual")
    \/ Select("manual", InstrumentLists)
    \/ Sizing("manual", FALSE)
    \/ Submit("manual", MaxTradesSolo)
    \/ BrokerClose
    \/ Tick(MaxTimeSolo)

SpecSolo == Init /\ [][NextSolo]_vars

\* The scan loop alone: the bot BotRunner starts, with no command arriving.
NextScan ==
    \/ Start
    \/ CycleBegin("scan", MaxOpsScan)
    \/ Monitor("scan")
    \/ Evaluate("scan", FALSE)
    \/ Closing("scan")
    \/ Select("scan", InstrumentLists)
    \/ Sizing("scan", FALSE)
    \/ Submit("scan", MaxTradesSolo)
    \/ BrokerClose
    \/ Tick(MaxTimeSolo)

SpecScan == Init /\ [][NextScan]_vars

\* The scan loop alone, with the price each evaluation read kept in
\* requests["scan"].
NextMonitor ==
    \/ Start
    \/ CycleBegin("scan", MaxOpsScan)
    \/ Monitor("scan")
    \/ Evaluate("scan", TRUE)
    \/ Closing("scan")
    \/ Select("scan", InstrumentLists)
    \/ Sizing("scan", FALSE)
    \/ Submit("scan", MaxTradesSolo)
    \/ BrokerClose
    \/ Tick(MaxTimeSolo)

SpecMonitor == Init /\ [][NextMonitor]_vars

\* The scan loop alone, with get_best_instruments choosing among two
\* instruments, so that a cycle has an instrument after its first one.
NextCycle ==
    \/ Start
    \/ CycleBegin("scan", MaxOpsScan)
    \/ Monitor("scan")
    \/ Evaluate("scan", FALSE)
    \/ Closing("scan")
    \/ Select("scan", ListsOf({"EUR_USD", "GBP_USD"}))
    \/ Sizing("scan", FALSE)
    \/ Submit("scan", MaxTradesSolo)
    \/ BrokerClose
    \/ Tick(MaxTimeSolo)

SpecCycle == Init /\ [][NextCycle]_vars

\* The scan loop alone with the sizer's maximum above the loop's own limit
\* (as 100 is above 5) and get_best_instruments(count=3) choosing among three
\* instruments, so that one cycle can enter more than once.  The one cycle
\* it runs begins with no open trade, so monitor_trades evaluates none.
InitEntries ==
    /\ EngineInit
    /\ input = [function |-> "PositionSizer", max_open_trades |-> max_open_trades_scan]
    /\ output = <<>>

NextEntries ==
    \/ Start
    \/ CycleBegin("scan", MaxOps)
    \/ Monitor("scan")
    \/ Select("scan", {SubSeq(<<"EUR_USD", "GBP_USD", "AUD_USD">>, 1, n) : n \in 0..best_count})
    \/ Sizing("scan", FALSE)
    \/ Submit("scan", MaxTradesEntries)
    \/ BrokerClose
    \/ Tick(MaxTime)

SpecEntries == InitEntries /\ [][NextEntries]_vars

\* BotRunner.stop (or the interpreter's shutdown after sys.exit in the signal
\* handler): is_running is cleared, the HTTP client is closed and the scan
\* task is cancelled at whatever await it stands.  CancelledError is not an
\* Exception, so no handler of the cycle catches it and the cycle is left
\* where it was; a request in flight has reached the broker or has not.
Stop(cap) ==
    /\ is_running["scan"]
    /\ is_running' = [is_running EXCEPT !["scan"] = FALSE]
    /\ pc' = [pc EXCEPT !["scan"] = "stopped"]
    /\ queue' = [queue EXCEPT !["scan"] = <<>>]
    /\ results' = [results EXCEPT !["scan"] = NoResults]
    /\ attempt' = [attempt EXCEPT !["scan"] = 0]
    /\ pending' = [pending EXCEPT !["scan"] = 0]
    /\ \E delivered \in BOOLEAN :
        IF delivered /\ pc["scan"] = "submit" /\ Cardinality(FilledTrades) < cap
        THEN \E price \in FillPrices(Head(queue["scan"])) :
                /\ trades' = filled_at_broker(Head(queue["scan"]), pending["scan"], price)
                /\ call_fills' = [call_fills EXCEPT !["scan"] = @ + 1]
        ELSE IF delivered /\ pc["scan"] = "closing"
        THEN trades' = closed_at_broker(Head(queue["scan"])) /\ UNCHANGED call_fills
        ELSE UNCHANGED <<trades, call_fills>>
    /\ UNCHANGED <<now, trade_state, state_file, trailing_stops, closed_trades, daily_stats, last_scan_time, next_cycle, ops, calls, last_call, input, output, requests>>

\* BotRunner calls TradingBot.start once (bot_runner.py:62): not again after
\* a stop.
StartOnce ==
    /\ pc["scan"] = "idle"
    /\ Start

\* The scan loop with a stop request arriving at any time.
NextStop ==
    \/ StartOnce
    \/ CycleBegin("scan", MaxOpsScan)
    \/ Monitor("scan")
    \/ Evaluate("scan", FALSE)
    \/ Closing("scan")
    \/ Select("scan", InstrumentLists)
    \/ Sizing("scan", FALSE)
    \/ Submit("scan", MaxTradesSolo)
    \/ BrokerClose
    \/ Tick(MaxTimeSolo)
    \/ Stop(MaxTradesSolo)

SpecStop == Init /\ [][NextStop]_vars

\* The entries of both bots (a scan cycle, a command that runs run()), with
\* the broker requests of each entry logged.
NextEntry ==
    \/ Start
    \/ \E b \in Bots : CycleBegin(b, MaxOps)
    \/ \E b \in Bots : Monitor(b)
    \/ \E b \in Bots : Evaluate(b, FALSE)
    \/ \E b \in Bots : Closing(b)
    \/ \E b \in Bots : Select(b, InstrumentLists)
    \/ \E b \in Bots : Sizing(b, TRUE)
    \/ \E b \in Bots : Submit(b, MaxTrades)
    \/ BrokerClose
    \/ Tick(MaxTime)

SpecEntry == Init /\ [][NextEntry]_vars

(* ----------------------- the PositionSizer alone ----------------------- *)
\* The public interface of one PositionSizer (the TelegramBot's bot's),
\* called in any order: what a caller of the class can drive it through.
SizerEquity ==
    /\ calls < MaxCalls
    /\ \E equity \in Equities \cup {None} :
        LET ts == update_equity_and_drawdown(trade_state["manual"], equity)
        IN  /\ trade_state' = [trade_state EXCEPT !["manual"] = ts]
            /\ state_file' = IF equity = None THEN state_file ELSE <<ts>>
    /\ calls' = calls + 1
    /\ UNCHANGED <<now, trades, trailing_stops, closed_trades, daily_stats, is_running, last_scan_time, next_cycle, pc, queue, attempt, pending, results, call_fills, ops, last_call, input, output, requests>>

SizerRecord ==
    /\ calls < MaxCalls
    /\ \E instrument \in Instruments :
        LET ts == record_trade(trade_state["manual"], instrument, now)
        IN  /\ trade_state' = [trade_state EXCEPT !["manual"] = ts]
            /\ state_file' = <<ts>>
    /\ calls' = calls + 1
    /\ UNCHANGED <<now, trades, trailing_stops, closed_trades, daily_stats, is_running, last_scan_time, next_cycle, pc, queue, attempt, pending, results, call_fills, ops, last_call, input, output, requests>>

SizerClose ==
    /\ calls < MaxCalls
    /\ \E instrument \in Instruments :
        LET ts == close_trade(trade_state["manual"], instrument)
        IN  /\ trade_state' = [trade_state EXCEPT !["manual"] = ts]
            /\ state_file' = <<ts>>
    /\ calls' = calls + 1
    /\ UNCHANGED <<now, trades, trailing_stops, closed_trades, daily_stats, is_running, last_scan_time, next_cycle, pc, queue, attempt, pending, results, call_fills, ops, last_call, input, output, requests>>

SizerPerformance ==
    /\ calls < MaxCalls
    /\ \E instrument \in Instruments, won \in BOOLEAN, pnl \in PLs :
        LET ts == update_performance(trade_state["manual"], instrument, won, pnl)
        IN  /\ trade_state' = [trade_state EXCEPT !["manual"] = ts]
            /\ state_file' = <<ts>>
    /\ calls' = calls + 1
    /\ UNCHANGED <<now, trades, trailing_stops, closed_trades, daily_stats, is_running, last_scan_time, next_cycle, pc, queue, attempt, pending, results, call_fills, ops, last_call, input, output, requests>>

NextSizer ==
    \/ SizerEquity
    \/ SizerRecord
    \/ SizerClose
    \/ SizerPerformance
    \/ Tick(MaxTimeSolo)

SpecSizer == Init /\ [][NextSizer]_vars

(* ------------------------ trade_state.json ---------------------------- *)
\* One PositionSizer and its state file across process runs.  A mutating
\* call changes trade_state and enters _save_state, whose open(STATE_FILE,
\* "w") empties the file at once.
FileMutate ==
    /\ pc["manual"] = "idle"
    /\ calls < MaxSaves
    /\ \E instrument \in Instruments, equity \in Equities, won \in BOOLEAN, pnl \in PLs, call \in {"update_equity_and_drawdown", "record_trade", "close_trade", "update_performance"} :
        LET old == trade_state["manual"]
            ts == IF call = "update_equity_and_drawdown" THEN update_equity_and_drawdown(old, equity)
                  ELSE IF call = "record_trade" THEN record_trade(old, instrument, now)
                  ELSE IF call = "close_trade" THEN close_trade(old, instrument)
                  ELSE update_performance(old, instrument, won, pnl)
        IN  /\ trade_state' = [trade_state EXCEPT !["manual"] = ts]
            /\ state_file' = <<Written(ts, 0)>>
            /\ input' = [function |-> "_save_state", previous |-> state_file, new |-> <<ts>>]
    /\ pc' = [pc EXCEPT !["manual"] = "saving"]
    /\ output' = <<>>
    /\ calls' = calls + 1
    /\ UNCHANGED <<now, trades, trailing_stops, closed_trades, daily_stats, is_running, last_scan_time, next_cycle, queue, attempt, pending, results, call_fills, ops, last_call, requests>>

\* json.dump: more of the object reaches the file; with the last key the
\* save is over.
FileWrite ==
    /\ pc["manual"] = "saving"
    /\ \E k \in 1..Len(StateKeys) :
        /\ k > Cardinality(DOMAIN state_file[1])
        /\ state_file' = <<Written(trade_state["manual"], k)>>
        /\ pc' = [pc EXCEPT !["manual"] = IF k = Len(StateKeys) THEN "idle" ELSE "saving"]
    /\ UNCHANGED <<now, trades, trade_state, trailing_stops, closed_trades, daily_stats, is_running, last_scan_time, next_cycle, queue, attempt, pending, results, call_fills, ops, calls, last_call, input, output, requests>>

\* The process stops (kill, power loss), between calls or inside a save.
ProcessStop ==
    /\ pc["manual"] \in {"idle", "saving"}
    /\ pc' = [pc EXCEPT !["manual"] = "stopped"]
    /\ UNCHANGED <<now, trades, trade_state, state_file, trailing_stops, closed_trades, daily_stats, is_running, last_scan_time, next_cycle, queue, attempt, pending, results, call_fills, ops, calls, last_call, input, output, requests>>

\* Between runs the file is deleted, cut off, or damaged in one stamp.
FileFault ==
    /\ pc["manual"] = "stopped"
    /\ state_file # <<>>
    /\ input.function # "file_fault"
    /\ \/ state_file' = <<>>
       \/ \E k \in 0..(Cardinality(DOMAIN state_file[1]) - 1) : state_file' = <<Written(state_file[1], k)>>
       \/ /\ Complete(state_file[1])
          /\ \E i \in Instruments : state_file' = <<[state_file[1] EXCEPT !.last_trade_time[i] = BadStamp]>>
    /\ input' = [function |-> "file_fault"]
    /\ UNCHANGED <<now, trades, trade_state, trailing_stops, closed_trades, daily_stats, is_running, last_scan_time, next_cycle, pc, queue, attempt, pending, results, call_fills, ops, calls, last_call, output, requests>>

\* The next run: PositionSizer.__init__ with _load_state; `output` keeps the
\* file as this load found it.  A date change makes _reset_daily_stats save.
ProcessStart ==
    /\ pc["manual"] = "stopped"
    /\ LET ts == load_state(state_file, Today(now))
       IN  /\ trade_state' = [trade_state EXCEPT !["manual"] = ts]
           /\ state_file' = IF state_file # <<>> /\ Complete(state_file[1]) /\ ts # state_file[1]
                            THEN <<ts>> ELSE state_file
    /\ output' = <<state_file>>
    /\ pc' = [pc EXCEPT !["manual"] = "idle"]
    /\ UNCHANGED <<now, trades, trailing_stops, closed_trades, daily_stats, is_running, last_scan_time, next_cycle, queue, attempt, pending, results, call_fills, ops, calls, last_call, input, requests>>

NextFile ==
    \/ FileMutate
    \/ FileWrite
    \/ ProcessStop
    \/ FileFault
    \/ ProcessStart
    \/ Tick(MaxTimeSolo)

SpecFile == Init /\ [][NextFile]_vars

(* -------------------- one evaluation of one position ------------------ *)
\* The arguments of one _evaluate_trade: the trade as get_open_trades lists
\* it, the price get_price returns, the time it has been open, and the
\* trailing stop the closer holds for it (none at its first evaluation).
ExitInstruments == {"EUR_USD", "USD_JPY"}
ExitMoves == {-35, -30, -20, -3, 0, 3, 20, 30, 35}
ExitDurations == 0..(max_trade_duration + 2)
ExitPLs == {-10, 12, 24, 30}
ExitMargins == {0, 20}
ExitWatermarks == {[high |-> h, low |-> l] : h \in {0, 20}, l \in {-20, 0}}

ExitStops(instrument, known, mark) ==
    IF known
    THEN [t \in {1} |-> [entry_price |-> BasePrice(instrument),
                         highest_price |-> BasePrice(instrument) + mark.high * pip_size(instrument),
                         lowest_price |-> BasePrice(instrument) + mark.low * pip_size(instrument)]]
    ELSE NoStops

ExitInputs ==
    {[function |-> "_evaluate_trade", trade_id |-> 1, instrument |-> i,
      entry_price |-> BasePrice(i), current_price |-> BasePrice(i) + m * pip_size(i),
      unrealized_pl |-> pl, initial_margin |-> im, duration |-> d, is_short |-> short,
      momentum |-> mo, stops |-> ExitStops(i, known, mark)] :
        i \in ExitInstruments, m \in ExitMoves, pl \in ExitPLs, im \in ExitMargins,
        d \in ExitDurations, short \in BOOLEAN, mo \in BOOLEAN, known \in BOOLEAN,
        mark \in ExitWatermarks}

InitExit ==
    /\ EngineInit
    /\ input \in ExitInputs
    /\ output = <<>>

\* The trailing stops _evaluate_trade hands to _check_exit_conditions (lines 106-115).
StopsChecked ==
    evaluated_stops(input.stops, input.trade_id, input.entry_price, input.current_price, input.is_short)

\* _evaluate_trade from its trailing-stop update to the result of
\* _check_exit_conditions (lines 106-121).
EvaluateExit ==
    /\ input.function = "_evaluate_trade"
    /\ output = <<>>
    /\ output' = <<check_exit_conditions(StopsChecked, input.trade_id, input.instrument, input.current_price, input.entry_price, input.unrealized_pl, input.initial_margin, input.duration, input.is_short, input.momentum)>>
    /\ UNCHANGED <<now, trades, trade_state, state_file, trailing_stops, closed_trades, daily_stats, is_running, last_scan_time, next_cycle, pc, queue, attempt, pending, results, call_fills, ops, calls, last_call, input, requests>>

NextExit == EvaluateExit

SpecExit == InitExit /\ [][NextExit]_vars

(* ---------------------- calculate_units, called again ----------------- *)
\* The arguments of calculate_units and what the broker answers to its four
\* reads (None: unavailable), the same at every call.
SizingMargins == {5, 100000}
SizingBoosts == {0, 20}
SizingStopLosses == {min_stop_loss_pips, 20}

SizingInputs ==
    {[function |-> "calculate_units", instrument |-> i, stop_loss_pips |-> sl,
      confidence_boost |-> boost, equity |-> e, balance |-> bal, margin |-> m,
      price |-> IF priced THEN BasePrice(i) + move * pip_size(i) ELSE None] :
        i \in Instruments, sl \in SizingStopLosses, boost \in SizingBoosts,
        e \in Equities \cup {None}, bal \in Balances \cup {None},
        m \in SizingMargins \cup {None}, move \in PipMoves, priced \in BOOLEAN}

InitSizing ==
    /\ EngineInit
    /\ input \in SizingInputs
    /\ output = <<>>

\* One call of calculate_units on the sizer of a freshly built bot; the
\* returned unit count is appended to `output`.
CalculateUnits ==
    /\ input.function = "calculate_units"
    /\ Len(output) < MaxSizings
    /\ LET ts1 == update_equity_and_drawdown(trade_state["manual"], input.equity)
           units == units_for(ts1, input.instrument, input.stop_loss_pips, input.confidence_boost, now, input.balance, input.margin, input.price)
           ts2 == sized_state(ts1, input.instrument, input.confidence_boost, now, input.balance, input.margin, input.price)
       IN  /\ trade_state' = [trade_state EXCEPT !["manual"] = ts2]
           /\ state_file' = IF input.equity = None THEN state_file ELSE <<ts1>>
           /\ output' = Append(output, units)
    /\ UNCHANGED <<now, trades, trailing_stops, closed_trades, daily_stats, is_running, last_scan_time, next_cycle, pc, queue, attempt, pending, results, call_fills, ops, calls, last_call, input, requests>>

NextSizing == CalculateUnits

SpecSizing == InitSizing /\ [][NextSizing]_vars

(* ------------- calculate_units on a sizer with a trade history -------- *)
\* Closed trades update_performance may be told of for one instrument.
MaxUpdates == 10
UnitsInstruments == {"EUR_USD", "USD_JPY"}
UnitsBalances == {1000, 10000}

UnitsInputs ==
    {[function |-> "sizing", instrument |-> i, stop_loss_pips |-> sl,
      confidence_boost |-> boost, equity |-> e, balance |-> bal, margin |-> m,
      price |-> BasePrice(i)] :
        i \in UnitsInstruments, sl \in SizingStopLosses, boost \in SizingBoosts,
        e \in {850, 1000, 10000}, bal \in UnitsBalances, m \in SizingMargins}

InitUnits ==
    /\ EngineInit
    /\ input \in UnitsInputs
    /\ output = <<>>

\* update_performance for a closed trade of the instrument.
UnitsUpdate ==
    /\ input.function \in {"sizing", "execute_trade"}
    /\ PerfOf(trade_state["manual"], input.instrument).total_trades < MaxUpdates
    /\ \E won \in BOOLEAN, win \in {1}, loss \in {0} :
        LET ts == update_performance(trade_state["manual"], input.instrument, won, IF won THEN win ELSE loss)
        IN  /\ trade_state' = [trade_state EXCEPT !["manual"] = ts]
            /\ state_file' = <<ts>>
    /\ output' = <<>>
    /\ UNCHANGED <<now, trades, trailing_stops, closed_trades, daily_stats, is_running, last_scan_time, next_cycle, pc, queue, attempt, pending, results, call_fills, ops, calls, last_call, input, requests>>

\* One call of calculate_units; `output` holds what it returned and the
\* locals it returned from (None: not computed in that call).
UnitsCall ==
    /\ input.function = "sizing"
    /\ LET ts1 == update_equity_and_drawdown(trade_state["manual"], input.equity)
           units == units_for(ts1, input.instrument, input.stop_loss_pips, input.confidence_boost, now, input.balance, input.margin, input.price)
           ts2 == sized_state(ts1, input.instrument, input.confidence_boost, now, input.balance, input.margin, input.price)
           adjusted == adjusted_confidence(ts1, input.instrument, input.confidence_boost)
           computed == can_trade(ts1, input.instrument, now).allowed /\ adjusted >= min_confidence
       IN  /\ trade_state' = [trade_state EXCEPT !["manual"] = ts2]
           /\ state_file' = <<ts1>>
           /\ output' = <<[units |-> units,
                           adjusted_confidence |-> IF computed THEN adjusted ELSE None,
                           volatility_adjustment |-> IF computed THEN volatility_adjustment(ts1, adjusted) ELSE None,
                           units_by_risk |-> IF computed THEN units_by_risk(ts1, input.instrument, input.stop_loss_pips, input.confidence_boost, input.balance) ELSE None,
                           max_units_margin |-> IF computed THEN max_units_margin(input.margin, input.price) ELSE None,
                           kelly_adjustment |-> IF computed THEN kelly_adjustment(ts1, input.instrument) ELSE Zero]>>
    /\ UNCHANGED <<now, trades, trailing_stops, closed_trades, daily_stats, is_running, last_scan_time, next_cycle, pc, queue, attempt, pending, results, call_fills, ops, calls, last_call, input, requests>>

NextUnits ==
    \/ UnitsUpdate
    \/ UnitsCall

SpecUnits == InitUnits /\ [][NextUnits]_vars

(* --------------------- the order of an entry --------------------------- *)
\* _validate_stop_loss (trade_executor.py:105-107).
validate_stop_loss(stop_loss_pips) ==
    min_stop_loss_pips <= stop_loss_pips /\ stop_loss_pips <= max_stop_loss_pips

\* create_trade with the stop placed above the price it read.
create_trade_order_stop_above(instrument, units, stop_loss_pips, price) ==
    [submitted |-> TRUE, instrument |-> instrument, units |-> units,
     stopLossOnFill |-> IF stop_loss_pips # 0 /\ price # None /\ price # 0
                        THEN price + stop_loss_pips * pip_size(instrument)
                        ELSE None]

\* The order create_trade posts; `price` is what its own get_price returned.
\* stopLossOnFill is None when no stop is attached.
create_trade_order(instrument, units, stop_loss_pips, price) ==
    [submitted |-> TRUE, instrument |-> instrument, units |-> units,
     stopLossOnFill |-> IF stop_loss_pips # 0 /\ price # None /\ price # 0
                        THEN price - stop_loss_pips * pip_size(instrument)
                        ELSE None]

NoOrder == [submitted |-> FALSE, instrument |-> "", units |-> 0, stopLossOnFill |-> None]

\* execute_trade up to its create_trade: the order it submits, or NoOrder
\* when it returns before (units <= 0, no price, stop loss out of range).
execute_trade_order(instrument, units, stop_loss_pips, current_price, price) ==
    IF units <= 0 THEN NoOrder
    ELSE IF current_price = None THEN NoOrder
    ELSE IF ~validate_stop_loss(stop_loss_pips) THEN NoOrder
    ELSE create_trade_order(instrument, units, stop_loss_pips, price)

\* One instrument of analyze_and_execute_trades: the answers of the broker
\* to calculate_units, to the get_price of execute_trade (current_price)
\* and to the get_price of create_trade (order_price); the stop loss is the
\* lower or the upper bound of _calculate_optimal_stop_loss.
OrderInputs ==
    UNION {{[function |-> "execute_trade", instrument |-> i, stop_loss_pips |-> sl,
             confidence_boost |-> boost, equity |-> e, balance |-> bal, margin |-> m,
             price |-> BasePrice(i), current_price |-> cp, order_price |-> op] :
                sl \in {min_stop_loss_pips, max_stop_loss_pips}, boost \in Boosts, e \in Balances,
                bal \in UnitsBalances, m \in SizingMargins,
                cp \in {None, BasePrice(i)}, op \in Prices(i) \cup {None}} :
           i \in UnitsInstruments}

InitOrder ==
    /\ EngineInit
    /\ input \in OrderInputs
    /\ output = <<>>

\* The body of the loop of analyze_and_execute_trades for the instrument:
\* calculate_units, and with units > 0 execute_trade; `output` holds the
\* order that reached create_trade.
OrderEntry ==
    /\ input.function = "execute_trade"
    /\ output = <<>>
    /\ \E success \in BOOLEAN :
        LET ts1 == update_equity_and_drawdown(trade_state["manual"], input.equity)
            units == units_for(ts1, input.instrument, input.stop_loss_pips, input.confidence_boost, now, input.balance, input.margin, input.price)
            ts2 == sized_state(ts1, input.instrument, input.confidence_boost, now, input.balance, input.margin, input.price)
            order == execute_trade_order(input.instrument, units, input.stop_loss_pips, input.current_price, input.order_price)
            ts3 == entry_booked(ts2, input.instrument, now, order.submitted /\ success)
        IN  /\ trade_state' = [trade_state EXCEPT !["manual"] = ts3]
            /\ state_file' = <<IF order.submitted /\ success THEN ts3 ELSE ts1>>
            /\ output' = <<order>>
    /\ UNCHANGED <<now, trades, trailing_stops, closed_trades, daily_stats, is_running, last_scan_time, next_cycle, pc, queue, attempt, pending, results, call_fills, ops, calls, last_call, input, requests>>

NextOrder ==
    \/ UnitsUpdate
    \/ OrderEntry

SpecOrder == InitOrder /\ [][NextOrder]_vars

(* ------------------------- save, restart, load ------------------------ *)
\* Whether trade_state["performance"] is still the defaultdict of __init__
\* after _load_state on `file`: trade_state.update(data) (line 66) puts the
\* plain dict of the file in its place once json.load has succeeded.
keeps_factory(file) == file = <<>> \/ ~Complete(file[1])

\* calculate_units on a sizer whose state is ts, `factory` telling whether
\* performance is the defaultdict: the units returned, or the KeyError of
\* trade_state["performance"][instrument] in _calculate_kelly_adjustment
\* (line 288) for an instrument a plain dict has no entry of.
calculate_units_result(ts, factory, instrument, stop_loss_pips, boost, utcnow, equity, balance, margin, price) ==
    LET ts1 == update_equity_and_drawdown(ts, equity)
        reaches_kelly == /\ can_trade(ts1, instrument, utcnow).allowed
                         /\ balance # None
                         /\ adjusted_confidence(ts1, instrument, boost) >= min_confidence
                         /\ margin # None
                         /\ price # None
    IN  IF reaches_kelly /\ ~factory /\ instrument \notin DOMAIN ts1.performance
        THEN [raised |-> TRUE, units |-> 0]
        ELSE [raised |-> FALSE, units |-> units_for(ts1, instrument, stop_loss_pips, boost, utcnow, balance, margin, price)]

RestartInputs ==
    {[function |-> "restart", instrument |-> i, stop_loss_pips |-> sl,
      confidence_boost |-> boost, equity |-> e, balance |-> bal, margin |-> m,
      price |-> BasePrice(i)] :
        i \in Instruments, sl \in StopLosses, boost \in Boosts,
        e \in Equities, bal \in Balances, m \in Margins}

InitRestart ==
    /\ EngineInit
    /\ input \in RestartInputs
    /\ output = <<>>

\* A call that changes the risk state and saves it, before the restart.
RestartCall ==
    /\ input.function = "restart"
    /\ output = <<>>
    /\ calls < MaxSaves
    /\ \E instrument \in Instruments, equity \in Equities, won \in BOOLEAN, pnl \in PLs, call \in {"update_equity_and_drawdown", "record_trade", "close_trade", "update_performance"} :
        LET old == trade_state["manual"]
            ts == IF call = "update_equity_and_drawdown" THEN update_equity_and_drawdown(old, equity)
                  ELSE IF call = "record_trade" THEN record_trade(old, instrument, now)
                  ELSE IF call = "close_trade" THEN close_trade(old, instrument)
                  ELSE update_performance(old, instrument, won, pnl)
        IN  /\ trade_state' = [trade_state EXCEPT !["manual"] = ts]
            /\ state_file' = <<ts>>
    /\ calls' = calls + 1
    /\ UNCHANGED <<now, trades, trailing_stops, closed_trades, daily_stats, is_running, last_scan_time, next_cycle, pc, queue, attempt, pending, results, call_fills, ops, last_call, input, output, requests>>

\* The saved state is loaded by a newly constructed PositionSizer;
\* `output` holds what can_trade and calculate_units answer on the state
\* that was saved and on the loaded one, for the same instrument, time and
\* broker values.
RestartRoundTrip ==
    /\ input.function = "restart"
    /\ output = <<>>
    /\ state_file # <<>>
    /\ LET saved == trade_state["manual"]
           loaded == load_state(state_file, Today(now))
           answers(ts, factory) ==
               [can_trade |-> can_trade(ts, input.instrument, now),
                calculate_units |-> calculate_units_result(ts, factory, input.instrument, input.stop_loss_pips, input.confidence_boost, now, input.equity, input.balance, input.margin, input.price)]
       IN  /\ trade_state' = [trade_state EXCEPT !["manual"] = loaded]
           /\ output' = <<answers(saved, TRUE), answers(loaded, keeps_factory(state_file))>>
    /\ UNCHANGED <<now, trades, state_file, trailing_stops, closed_trades, daily_stats, is_running, last_scan_time, next_cycle, pc, queue, attempt, pending, results, call_fills, ops, calls, last_call, input, requests>>

NextRestart ==
    \/ RestartCall
    \/ RestartRoundTrip

SpecRestart == InitRestart /\ [][NextRestart]_vars

(* ------------------------ the scan loop, running on -------------------- *)
\* Orders the broker fills while the loop runs on.
MaxTradesLive == 1

\* A cycle of the scan loop that keeps running: as CycleBegin, with only the
\* parity of scans_completed kept in ops.  The clock stops at MaxTimeSolo,
\* which stands for that time or any later one, so the sleep between two
\* cycles has elapsed there.
CycleAgain ==
    /\ pc["scan"] = "idle"
    /\ is_running["scan"]
    /\ now >= next_cycle \/ now = MaxTimeSolo
    /\ ops' = [ops EXCEPT !["scan"] = (@ + 1) % 2]
    /\ \E equity \in Equities \cup {None} :
        LET ts == update_equity_and_drawdown(trade_state["scan"], equity)
        IN  /\ trade_state' = [trade_state EXCEPT !["scan"] = ts]
            /\ state_file' = IF equity = None THEN state_file ELSE <<ts>>
            /\ IF risk_summary_can_trade(ts)
               THEN /\ pc' = [pc EXCEPT !["scan"] = "monitor"]
                    /\ UNCHANGED <<queue, results, next_cycle>>
               ELSE Return("scan")
    /\ UNCHANGED <<now, trades, trailing_stops, closed_trades, daily_stats, is_running, last_scan_time, attempt, pending, call_fills, calls, last_call, input, output, requests>>

NextLive ==
    \/ Start
    \/ CycleAgain
    \/ Monitor("scan")
    \/ Evaluate("scan", FALSE)
    \/ Closing("scan")
    \/ Select("scan", InstrumentLists)
    \/ Sizing("scan", FALSE)
    \/ Submit("scan", MaxTradesLive)
    \/ BrokerClose
    \/ Tick(MaxTimeSolo)

\* The loop is scheduled (asyncio runs every ready step), get_open_trades
\* and get_price answer again and again, and the broker confirms a close
\* that is requested again and again.
FairLive ==
    /\ WF_vars(Start)
    /\ WF_vars(CycleAgain)
    /\ WF_vars(Monitor("scan"))
    /\ SF_vars(Monitor("scan") /\ pc'["scan"] = "evaluate")
    /\ WF_vars(Evaluate("scan", FALSE))
    /\ SF_vars(Evaluate("scan", FALSE) /\ pc'["scan"] = "closing")
    /\ WF_vars(Closing("scan"))
    /\ SF_vars(Closing("scan") /\ trades' # trades)
    /\ WF_vars(Select("scan", InstrumentLists))
    /\ WF_vars(Sizing("scan", FALSE))
    /\ WF_vars(Submit("scan", MaxTradesLive))
    /\ WF_vars(Tick(MaxTimeSolo))

SpecLive == Init /\ [][NextLive]_vars /\ FairLive

(* --------------------------- one _make_request ------------------------ *)
\* int(response.headers.get('Retry-After', 5))
default_retry_after == 5
\* A Retry-After header that is not a number of seconds (an HTTP date).
BadHeader == -3

\* What self.client.request can do in one attempt: answer with a status (a
\* 2xx body that response.json() parses or not, a 429 with its Retry-After
\* header), run into httpx.TimeoutException, or raise another exception.
Responses ==
    {[kind |-> "status", status |-> st, body_ok |-> TRUE, retry_after |-> None] : st \in {200, 201, 400, 500}}
    \cup {[kind |-> "status", status |-> 200, body_ok |-> FALSE, retry_after |-> None]}
    \cup {[kind |-> "status", status |-> 429, body_ok |-> TRUE, retry_after |-> ra] : ra \in {None, 2, BadHeader}}
    \cup {[kind |-> k, status |-> None, body_ok |-> TRUE, retry_after |-> None] : k \in {"timeout", "exception"}}

RequestInputs ==
    {[function |-> "_make_request", method |-> m] : m \in {"GET", "POST", "PUT"}}

\* The value _make_request returns.
Returned(success, data) == [success |-> success, data |-> data]

\* A loop body of _make_request that tries again after any failure.
make_request_attempt_retry_all(k, r) ==
    IF r.kind = "status" /\ r.status \in {200, 201} /\ r.body_ok
    THEN [returns |-> TRUE, value |-> Returned(TRUE, "json"), wait |-> 0]
    ELSE [returns |-> FALSE, value |-> Returned(FALSE, "none"), wait |-> 0]

\* The body of the loop of _make_request in its attempt k (0, 1, 2) when the
\* client answers r: whether it returns, the value, and the sleep before the
\* next attempt.
make_request_attempt(k, r) ==
    IF r.kind = "timeout"
    THEN [returns |-> FALSE, value |-> Returned(FALSE, "none"), wait |-> IF k < max_attempts - 1 THEN 2 ^ k ELSE 0]
    ELSE IF r.kind = "exception"
    THEN [returns |-> TRUE, value |-> Returned(FALSE, "str(e)"), wait |-> 0]
    ELSE IF r.status \in {200, 201}
    THEN IF r.body_ok
         THEN [returns |-> TRUE, value |-> Returned(TRUE, "json"), wait |-> 0]
         ELSE [returns |-> TRUE, value |-> Returned(FALSE, "str(e)"), wait |-> 0]
    ELSE IF r.status = 429
    THEN IF r.retry_after = BadHeader
         THEN [returns |-> TRUE, value |-> Returned(FALSE, "str(e)"), wait |-> 0]
         ELSE [returns |-> FALSE, value |-> Returned(FALSE, "none"),
               wait |-> IF r.retry_after = None THEN default_retry_after ELSE r.retry_after]
    ELSE [returns |-> TRUE, value |-> Returned(FALSE, "text"), wait |-> 0]

InitRequest ==
    /\ EngineInit
    /\ input \in RequestInputs
    /\ output = <<>>

\* One attempt of one _make_request: the client answers, the loop body
\* returns or sleeps, and the loop that has used its attempts returns
\* (False, "Max retries exceeded").  requests["manual"] keeps the answers and
\* the sleeps of the call.
Attempt ==
    /\ input.function = "_make_request"
    /\ output = <<>>
    /\ attempt["manual"] < max_attempts
    /\ \E r \in Responses :
        LET step == make_request_attempt(attempt["manual"], r)
        IN  /\ requests' = [requests EXCEPT !["manual"] = Append(@, [response |-> r, wait |-> step.wait])]
            /\ attempt' = [attempt EXCEPT !["manual"] = @ + 1]
            /\ output' = IF step.returns THEN <<step.value>>
                         ELSE IF attempt["manual"] + 1 = max_attempts THEN <<Returned(FALSE, "Max retries exceeded")>>
                         ELSE <<>>
    /\ UNCHANGED <<now, trades, trade_state, state_file, trailing_stops, closed_trades, daily_stats, is_running, last_scan_time, next_cycle, pc, queue, pending, results, call_fills, ops, calls, last_call, input>>

SpecRequest == InitRequest /\ [][Attempt]_vars /\ WF_vars(Attempt)

(* ------------------- TradingBot.start and TradingBot.stop -------------- *)
\* Calls of start() and stop() on one TradingBot, in any order.  output[i] is
\* the i-th start() call that entered its loop: `at` is the await it stands
\* at ("cycle": in _run_scan_cycle, "sleep": in asyncio.sleep, "returned"),
\* `cycles` the cycles it began, `asked` whether stop() was called since it
\* entered the loop.  The cycle itself is the one of the scan-loop
\* specifications; here it is one await.
MaxLoopCalls == 5
MaxLoopCycles == 2

InitLoops ==
    /\ EngineInit
    /\ input = [function |-> "start"]
    /\ output = <<>>

\* start(): returns at once when is_running is set; otherwise sets it and,
\* with no await in between, tests it in `while` and begins the first cycle.
StartCall ==
    /\ calls < MaxLoopCalls
    /\ calls' = calls + 1
    /\ IF is_running["scan"]
       THEN UNCHANGED <<is_running, output>>
       ELSE /\ is_running' = [is_running EXCEPT !["scan"] = TRUE]
            /\ output' = Append(output, [at |-> "cycle", cycles |-> 1, asked |-> FALSE])
    /\ UNCHANGED <<now, trades, trade_state, state_file, trailing_stops, closed_trades, daily_stats, last_scan_time, next_cycle, pc, queue, attempt, pending, results, call_fills, last_call, input, requests, ops>>

\* stop(): clears is_running (and closes the HTTP client).
StopCall ==
    /\ calls < MaxLoopCalls
    /\ calls' = calls + 1
    /\ is_running' = [is_running EXCEPT !["scan"] = FALSE]
    /\ output' = [i \in DOMAIN output |-> IF output[i].at = "returned" THEN output[i] ELSE [output[i] EXCEPT !.asked = TRUE]]
    /\ UNCHANGED <<now, trades, trade_state, state_file, trailing_stops, closed_trades, daily_stats, last_scan_time, next_cycle, pc, queue, attempt, pending, results, call_fills, last_call, input, requests, ops>>

\* `await self._run_scan_cycle()` of a loop returns: it sleeps.
CycleReturns ==
    \E i \in DOMAIN output :
        /\ output[i].at = "cycle"
        /\ output' = [output EXCEPT ![i].at = "sleep"]
        /\ UNCHANGED <<now, trades, trade_state, state_file, trailing_stops, closed_trades, daily_stats, last_scan_time, next_cycle, pc, queue, attempt, pending, results, call_fills, last_call, input, requests, is_running, ops, calls>>

\* The sleep of a loop ends and `while self.is_running` is tested: the next
\* cycle begins, or the loop is left and `finally` calls stop().
SleepEnds ==
    \E i \in DOMAIN output :
        /\ output[i].at = "sleep"
        /\ IF is_running["scan"]
           THEN /\ output[i].cycles < MaxLoopCycles
                /\ output' = [output EXCEPT ![i].at = "cycle", ![i].cycles = @ + 1]
                /\ UNCHANGED is_running
           ELSE /\ output' = [j \in DOMAIN output |-> IF j = i THEN [output[j] EXCEPT !.at = "returned"]
                                                       ELSE IF output[j].at = "returned" THEN output[j]
                                                       ELSE [output[j] EXCEPT !.asked = TRUE]]
                /\ is_running' = [is_running EXCEPT !["scan"] = FALSE]
        /\ UNCHANGED <<now, trades, trade_state, state_file, trailing_stops, closed_trades, daily_stats, last_scan_time, next_cycle, pc, queue, attempt, pending, results, call_fills, last_call, input, requests, ops, calls>>

NextLoops ==
    \/ StartCall
    \/ StopCall
    \/ CycleReturns
    \/ SleepEnds

SpecLoops == InitLoops /\ [][NextLoops]_vars

(* ------------------------------ properties ---------------------------- *)
\* The engine of the single-engine specification.
Engine == "manual"

\* The _make_request of a close has returned to bot b in this step.
CloseReturned(b) ==
    /\ pc[b] \in {"closing", "force_closing"}
    /\ pc'[b] # pc[b] \/ queue'[b] # queue[b]

\* The elements of a sequence.
Range(s) == {s[k] : k \in DOMAIN s}

\* C1: after any sequence of entries, monitor-driven closes, force closes and
\* closures at the broker, the counter trade_state['open_trades'] of the
\* engine's PositionSizer equals the number of positions open at the broker.
C1_CounterEqualsOpenPositions ==
    trade_state[Engine].open_trades = Cardinality(OpenTrades)

\* C2: can_trade returns allowed = False whenever current_drawdown is above
\* max_drawdown, for every instrument and whatever the cooldown clock, the
\* open-position count, the daily statistics and the loss counter are.
C2_DrawdownGate ==
    LET ts == trade_state[Engine]
        dd == ts.risk_metrics.current_drawdown
    IN  dd.n * 100 > max_drawdown * dd.d =>
            \A i \in Instruments, utcnow \in now..MaxTimeSolo : ~can_trade(ts, i, utcnow).allowed

\* C2, its case: the drawdown is above the maximum while the cooldown, the
\* open-position count, the daily loss and the loss counter would all let
\* the trade through, and can_trade refuses it for the drawdown.
C2_Witness ==
    LET ts == trade_state[Engine]
        dd == ts.risk_metrics.current_drawdown
    IN  /\ dd.n * 100 > max_drawdown * dd.d
        /\ \E i \in Instruments :
            /\ ts.last_trade_time[i] # None
            /\ now - ts.last_trade_time[i] >= trade_cooldown
            /\ can_trade(ts, i, now) = [allowed |-> FALSE, reason |-> "Max drawdown exceeded"]
        /\ ts.open_trades < max_open_trades
        /\ ts.daily_stats.max_loss = 0
        /\ ts.daily_stats.trades > 0
        /\ ts.risk_metrics.consecutive_losses < loss_breaker

\* No execute_trade call in progress or last made has put two orders at the
\* broker.
NoDuplicateOrder == \A b \in Bots : call_fills[b] <= 1

\* C3: two entry orders for the same instrument are never both filled less
\* than the cooldown interval apart, whatever the interleaving of the scan
\* cycle and a manual run() (even when no call duplicates its order).
C3_CooldownBetweenEntries ==
    NoDuplicateOrder =>
        \A t1, t2 \in FilledTrades :
            (t1 # t2 /\ trades[t1].instrument = trades[t2].instrument) =>
                Abs(trades[t1].openTime - trades[t2].openTime) >= trade_cooldown

\* C4: under any interleaving of scan cycles and manual commands the number
\* of open positions never exceeds max_open_trades (even when no call
\* duplicates its order).
C4_OpenPositionsWithinMaximum ==
    NoDuplicateOrder => Cardinality(OpenTrades) <= max_open_trades

\* The last loss_breaker closes the engine booked were all losing ones.
LosingStreak(b) ==
    LET n == Len(closed_trades[b])
    IN  /\ n >= loss_breaker
        /\ \A k \in (n - loss_breaker + 1)..n : ~closed_trades[b][k].won

\* C5: after the breaker's number of consecutive losing closes through the
\* engine's close path, can_trade returns allowed = False for every
\* instrument (until a winning close).
C5_LossBreakerTrips ==
    LosingStreak(Engine) =>
        \A i \in Instruments : ~can_trade(trade_state[Engine], i, now).allowed

\* C6: for every position that remains open, across monitor_trades
\* evaluations and force_close_all_trades attempts, the watermark the
\* trailing stop is measured from (highest_price of a long, lowest_price of a
\* short; the entry price when the engine holds none) never relaxes.
C6_WatermarkMonotone ==
    [][\A b \in Bots, t \in TradeIds :
        (/\ trades[t].status = "open"
         /\ trades'[t].status = "open"
         /\ t \in DOMAIN trailing_stops[b]) =>
            IF trades[t].units < 0
            THEN (IF t \in DOMAIN trailing_stops'[b] THEN trailing_stops'[b][t].lowest_price ELSE trades'[t].price)
                    <= trailing_stops[b][t].lowest_price
            ELSE (IF t \in DOMAIN trailing_stops'[b] THEN trailing_stops'[b][t].highest_price ELSE trades'[t].price)
                    >= trailing_stops[b][t].highest_price]_vars

\* C7: in every step the orders the broker fills and the record_trade stamps
\* (open count +1) correspond one to one: a stamp for every fill, none
\* without a fill, whatever the outcome of the broker call.
C7_OneStampPerFill ==
    [][Cardinality(FilledTrades') - Cardinality(FilledTrades) =
        Cardinality({b \in Bots : trade_state'[b].open_trades = trade_state[b].open_trades + 1})]_vars

\* C8: a single call of execute_trade never produces two orders at the
\* broker.
C8_OneOrderPerCall ==
    \A b \in Bots : call_fills[b] <= 1

C10_FullCloseBookkeeping ==
    [][\A b \in Bots :
        (CloseReturned(b) /\ last_call'[b].success) =>
            LET i == trades[Head(queue[b])].instrument
                old == trade_state[b]
                new == trade_state'[b]
            IN  /\ new.open_trades = Max(0, old.open_trades - 1)
                /\ PerfOf(new, i).total_trades = PerfOf(old, i).total_trades + 1
                /\ new.daily_stats.trades = old.daily_stats.trades + 1
                /\ new.risk_metrics.consecutive_losses \in {0, old.risk_metrics.consecutive_losses + 1}
                /\ state_file' = <<new>>]_vars

\* C11: in every scan cycle, after the equity refresh, the cycle goes on to
\* monitor_trades over the positions open at the broker, whatever the risk
\* state is.
C11_CycleMonitorsOpenPositions ==
    [][(ops'["scan"] = ops["scan"] + 1 /\ OpenTrades # {}) => pc'["scan"] = "monitor"]_vars

\* C12: within one cycle the entry phase (instrument selection, sizing,
\* order submission) starts only when monitor_trades has gone through the
\* whole list of open positions, and every confirmed close of that loop has
\* decremented open_trades by then.
C12_ExitsBeforeEntries ==
    [][\A b \in Bots :
        /\ (pc'[b] = "select" /\ pc[b] # "select") =>
            \/ pc[b] = "monitor"
            \/ pc[b] \in {"evaluate", "closing"} /\ Len(queue[b]) = 1
        /\ (pc'[b] \in {"sizing", "submit"} /\ pc[b] \notin {"sizing", "submit"}) =>
            pc[b] = "select"
        /\ (pc[b] = "closing" /\ CloseReturned(b) /\ last_call'[b].success) =>
            trade_state'[b].open_trades = Max(0, trade_state[b].open_trades - 1)]_vars

\* C12, its case: the cycle closed the engine's only position (open_trades
\* back to 0 from the maximum) and is submitting an entry in the same cycle.
C12_Witness ==
    /\ pc[Engine] = "submit"
    /\ results[Engine].trades_closed = 1
    /\ Len(closed_trades[Engine]) = 1
    /\ Cardinality(FilledTrades) = 1
    /\ OpenTrades = {}
    /\ trade_state[Engine].open_trades = 0

\* The five exit conditions of the evaluation in `input`, as the source
\* words them.
DurationExceeded == input.duration > max_trade_duration
ProfitTarget ==
    /\ Abs(input.current_price - input.entry_price) >= min_profit_threshold * pip_size(input.instrument)
    /\ input.initial_margin > 0
    /\ input.unrealized_pl * 10 >= min_risk_reward * input.initial_margin
TrailingStopHit ==
    /\ input.trade_id \in DOMAIN StopsChecked
    /\ IF input.is_short
       THEN input.current_price >= StopsChecked[input.trade_id].lowest_price + trailing_stop_pips * pip_size(input.instrument)
       ELSE input.current_price <= StopsChecked[input.trade_id].highest_price - trailing_stop_pips * pip_size(input.instrument)
LossCap ==
    Abs(input.current_price - input.entry_price) >= max_loss_pips * pip_size(input.instrument)
MomentumReversal == input.momentum
\* The price has moved against the position by at least max_loss_pips.
AdverseExcursion ==
    IF input.is_short
    THEN input.current_price - input.entry_price >= max_loss_pips * pip_size(input.instrument)
    ELSE input.entry_price - input.current_price >= max_loss_pips * pip_size(input.instrument)
Evaluated == input.function = "_evaluate_trade" /\ Len(output) = 1

\* C13: a position open for longer than max_trade_duration is flagged for
\* closure with the duration reason, whatever its profit and its trailing
\* stop are.
C13_DurationExit ==
    (Evaluated /\ DurationExceeded) =>
        output[1] = [should_exit |-> TRUE, reason |-> "Max duration exceeded"]

\* C13, its case: the position is over its duration, profitable past the
\* risk/reward gate, its trailing stop is not hit, and the duration reason is
\* returned.
C13_Witness ==
    /\ Evaluated
    /\ DurationExceeded
    /\ ProfitTarget
    /\ ~TrailingStopHit
    /\ output[1].reason = "Max duration exceeded"

\* C14: _check_exit_conditions returns the reason of the first condition that
\* holds in the order duration, profit target, trailing stop, hard loss cap,
\* momentum reversal, and should_exit is False only when all five are false.
C14_ExitPriority ==
    Evaluated =>
        /\ output[1].reason = "Max duration exceeded" <=> DurationExceeded
        /\ output[1].reason = "Profit target reached" <=> (~DurationExceeded /\ ProfitTarget)
        /\ output[1].reason = "Trailing stop hit" <=>
                (~DurationExceeded /\ ~ProfitTarget /\ TrailingStopHit)
        /\ output[1].reason = "Max loss exceeded" <=>
                (~DurationExceeded /\ ~ProfitTarget /\ ~TrailingStopHit /\ LossCap)
        /\ output[1].reason = "Momentum reversal detected" <=>
                (~DurationExceeded /\ ~ProfitTarget /\ ~TrailingStopHit /\ ~LossCap /\ MomentumReversal)
        /\ ~output[1].should_exit <=>
                (~DurationExceeded /\ ~ProfitTarget /\ ~TrailingStopHit /\ ~LossCap /\ ~MomentumReversal)

\* C14, its case: the trailing stop and the hard loss cap both hold with no
\* earlier condition, and the trailing stop's reason is the one returned.
C14_Witness ==
    /\ Evaluated
    /\ ~DurationExceeded
    /\ ~ProfitTarget
    /\ TrailingStopHit
    /\ LossCap
    /\ MomentumReversal
    /\ output[1].reason = "Trailing stop hit"

\* C15: when the price has moved against the position by at least
\* max_loss_pips, the evaluation signals closure whatever the profit-target
\* and risk/reward computations yield.
C15_HardLossCap ==
    (Evaluated /\ AdverseExcursion) => output[1].should_exit

\* C15, its case: an adverse move of max_loss_pips or more that fails the
\* risk/reward gate, within the duration limit, and closure is signalled.
C15_Witness ==
    /\ Evaluated
    /\ AdverseExcursion
    /\ ~DurationExceeded
    /\ ~ProfitTarget
    /\ input.unrealized_pl < 0
    /\ output[1].should_exit

\* C16: the confidence of every instrument is within [0.1, 1.0] (10..100 in
\* hundredths) in every state, and every performance update moves it as
\* claimed: a win adds 0.05 capped at 1.0, a loss subtracts 0.10 floored at
\* 0.1.
C16_ConfidenceWithinBounds ==
    /\ [](\A b \in Bots, i \in Instruments :
            get_confidence(trade_state[b], i) \in 10..100)
    /\ [][\A i \in Instruments :
            LET old == PerfOf(trade_state[Engine], i)
                new == PerfOf(trade_state'[Engine], i)
            IN  /\ new.wins = old.wins + 1 => new.confidence = Min(100, old.confidence + 5)
                /\ new.losses = old.losses + 1 => new.confidence = Max(10, old.confidence - 10)]_vars

\* C16, its case: a seventh loss in a row, which would take the confidence
\* from 0.1 to 0.0 and is held at the floor of 0.1.
C16_Witness ==
    \E i \in Instruments :
        /\ PerfOf(trade_state[Engine], i).losses = 7
        /\ PerfOf(trade_state[Engine], i).wins = 0
        /\ get_confidence(trade_state[Engine], i) = 10

\* C17: consecutive calls of calculate_units with the same arguments and the
\* same broker values, no trade opened or closed in between, return the same
\* unit count, also for an instrument with no recorded performance.
C17_SizingIdempotent ==
    (/\ input.function = "calculate_units"
     /\ None \notin {input.equity, input.balance, input.margin, input.price}) =>
        \A k \in 1..(Len(output) - 1) : output[k] = output[k + 1]

\* C18: calculate_units returns 0 whenever the equity, the available margin
\* or the price is unavailable in that call.
C18_ZeroWhenUpstreamMissing ==
    (/\ input.function = "calculate_units"
     /\ None \in {input.equity, input.margin, input.price}) =>
        \A k \in 1..Len(output) : output[k] = 0

\* calculate_units of bot b returned in this step.
SizingReturned(b) ==
    pc[b] = "sizing" /\ (pc'[b] # "sizing" \/ queue'[b] # queue[b])

\* C19: on either path an order goes to the broker only after can_trade
\* allowed the instrument in the same operation, and an entry that can_trade
\* denies has issued no broker request.
C19_EntriesPassRiskLimiter ==
    [][\A b \in Bots :
        /\ (SizingReturned(b) /\ pc'[b] = "submit") =>
                can_trade(trade_state'[b], Head(queue[b]), now).allowed
        /\ (SizingReturned(b) /\ ~can_trade(trade_state'[b], Head(queue[b]), now).allowed) =>
                /\ pc'[b] # "submit"
                /\ requests'[b] = <<>>]_vars

\* C20: the scan loop and the manual commands work on one RiskState: between
\* operations, what one of them has written (cooldown stamp, open count,
\* drawdown) is what the other's can_trade check decides on, so both checks
\* give the same answer for every instrument.
C20_OneRiskState ==
    (\A b \in Bots : pc[b] = "idle") =>
        \A i \in Instruments :
            /\ can_trade(trade_state["scan"], i, now) = can_trade(trade_state["manual"], i, now)
            /\ trade_state["scan"].last_trade_time[i] = trade_state["manual"].last_trade_time[i]
            /\ trade_state["scan"].open_trades = trade_state["manual"].open_trades

\* C21: a save replaces the state file atomically: a load that follows a stop
\* of the process, at whatever point of a save, finds the complete previous
\* file or the complete new one.
C21_AtomicSave ==
    (input.function = "_save_state" /\ Len(output) = 1) =>
        output[1] \in {input.previous, input.new}

\* C22: when the state file is absent, cut off or damaged at start-up, the
\* state after start-up is the fresh default: nothing of the bad file is
\* kept.
C22_BadFileGivesDefault ==
    (/\ input.function = "file_fault"
     /\ Len(output) = 1) =>
        [trade_state["manual"] EXCEPT !.daily_stats.date = 0] = DefaultTradeState

\* C23: peak_equity never decreases over any sequence of equity refreshes,
\* a refresh in which the broker returns no equity included.
C23_PeakEquityMonotone ==
    [][trade_state'[Engine].peak_equity >= trade_state[Engine].peak_equity]_vars

\* C23, its case: after a refresh with a lower equity than the peak, the peak
\* is still the higher value and the drawdown is measured from it.
C23_Witness ==
    /\ trade_state[Engine].peak_equity = 1000
    /\ trade_state[Engine].risk_metrics.current_drawdown = Rat(150, 1000)

\* C24: current_drawdown is (peak_equity - equity) / peak_equity for an
\* equity the broker returned and is never negative, and an entry gate that
\* lets an order through decides on a drawdown computed from a refresh of
\* its own cycle: in a bot's first cycle, on a drawdown that a refresh has
\* computed at all.
C24_DrawdownFromThisCycle ==
    \A b \in Bots :
        LET ts == trade_state[b]
        IN  /\ ts.risk_metrics.current_drawdown.n >= 0
            /\ ts.risk_metrics.current_drawdown \in
                    {Zero} \cup {Rat(ts.peak_equity - e, ts.peak_equity) : e \in {x \in Equities : x <= ts.peak_equity}}
            /\ (pc[b] = "submit" /\ ops[b] = 1) => ts.peak_equity > 0

\* C25: whenever can_trade refuses for the daily loss, and whenever a close
\* updates the daily record, the record's date is the current date: figures
\* of an earlier date neither gate nor add to today's, also in a process that
\* runs across the date change.
C25_DailyRecordIsTodays ==
    /\ [](\A i \in Instruments :
            can_trade(trade_state[Engine], i, now).reason = "Daily loss limit exceeded" =>
                trade_state[Engine].daily_stats.date = Today(now))
    /\ [][trade_state'[Engine].daily_stats # trade_state[Engine].daily_stats =>
            trade_state'[Engine].daily_stats.date = Today(now)]_vars

\* C26: a stop requested while a cycle is in progress does not cut the
\* cycle: the request leaves the cycle where it is, with its queue and the
\* broker's account untouched, and once stopped no further cycle starts.
C26_StopBetweenCycles ==
    [][/\ (is_running["scan"] /\ ~is_running'["scan"] /\ pc["scan"] # "idle") =>
            /\ pc'["scan"] = pc["scan"]
            /\ queue'["scan"] = queue["scan"]
       /\ ~is_running["scan"] => ops'["scan"] = ops["scan"]]_vars

C28_UnitsWithinCeilings ==
    (input.function = "sizing" /\ Len(output) = 1) =>
        LET o == output[1]
        IN  IF o.max_units_margin = None THEN o.units = 0
            ELSE /\ o.units >= 0
                 /\ o.units <= o.max_units_margin
                 /\ o.units <= o.units_by_risk

\* A sizer that has ten trades of the instrument on record returned a unit
\* count under a risk-based count that is the smaller ceiling.
C28_Witness ==
    /\ input.function = "sizing"
    /\ Len(output) = 1
    /\ output[1].units >= 1
    /\ output[1].units_by_risk < output[1].max_units_margin
    /\ output[1].kelly_adjustment # Rat(1, 2)

\* C29: the risk-based unit count of calculate_units is
\* equity * risk_pct / (adjusted stop distance * pip value), with
\* risk_pct = min_risk + (max_risk - min_risk) * confidence clamped to
\* [min_risk, max_risk] and a pip value of 0.01 for JPY-quoted instruments and
\* 0.0001 otherwise; it is 120,000 for an equity of 10,000, a confidence of
\* 0.7, a stop of 20 pips and no consecutive losses.
C29_RiskBasedCount ==
    (input.function = "sizing" /\ Len(output) = 1 /\ output[1].units_by_risk # None) =>
        LET o == output[1]
            risk_pct == Min(Max(min_risk + ((max_risk - min_risk) * o.adjusted_confidence) \div 100, min_risk), max_risk)
            pip_value == IF input.instrument \in JPYQuoted THEN 100 ELSE 1
            adjusted_stop == input.stop_loss_pips * (o.volatility_adjustment \div 10)
        IN  /\ o.units_by_risk = (input.equity * (risk_pct \div 100) * 100) \div (adjusted_stop * pip_value)
            /\ (/\ input.equity = 10000
                /\ o.adjusted_confidence = 70
                /\ input.stop_loss_pips = 20
                /\ o.volatility_adjustment = 1000
                /\ input.instrument \notin JPYQuoted) => o.units_by_risk = 120000

\* The five checks of the risk limiter on the engine's state, in the order
\* the contract lists them, each with the reason it gives.
LimiterChecks(instrument) ==
    LET ts == trade_state[Engine]
        stamp == last_trade(ts, instrument)
        dd == ts.risk_metrics.current_drawdown
    IN  <<[fails |-> stamp # None /\ now - stamp < trade_cooldown, reason |-> "Cooldown active"],
          [fails |-> ts.open_trades >= max_open_trades, reason |-> "Max open trades reached"],
          [fails |-> dd.n * 100 > max_drawdown * dd.d, reason |-> "Max drawdown exceeded"],
          [fails |-> ts.daily_stats.max_loss * 100 < -max_daily_loss, reason |-> "Daily loss limit exceeded"],
          [fails |-> ts.risk_metrics.consecutive_losses >= loss_breaker, reason |-> "Too many consecutive losses"]>>

\* C30: can_trade returns the reason of the first failing check in the order
\* cooldown, open-position capacity, drawdown, daily-loss ceiling,
\* consecutive-loss breaker, and (True, 'OK') exactly when all five pass.
C30_FirstFailingCheck ==
    \A i \in Instruments :
        LET checks == LimiterChecks(i)
            failing == {k \in DOMAIN checks : checks[k].fails}
            answer == can_trade(trade_state[Engine], i, now)
        IN  IF failing = {}
            THEN answer = [allowed |-> TRUE, reason |-> "OK"]
            ELSE LET first == CHOOSE k \in failing : \A j \in failing : k <= j
                 IN  answer = [allowed |-> FALSE, reason |-> checks[first].reason]

\* The cooldown, the capacity and the breaker fail together and the cooldown
\* is the reason returned.
C30_Witness ==
    \E i \in Instruments :
        /\ LimiterChecks(i)[1].fails
        /\ LimiterChecks(i)[2].fails
        /\ LimiterChecks(i)[5].fails
        /\ can_trade(trade_state[Engine], i, now).reason = "Cooldown active"

\* The answers after which the loop of _make_request may try again.
Retryable(r) == r.kind = "timeout" \/ (r.kind = "status" /\ r.status = 429)

\* C31: a _make_request ends with a value after at most 3 attempts; it tried
\* again only after a timeout (having slept 2^attempt seconds) or a 429
\* (having slept the Retry-After time), it returned failure at once on any
\* other error status, and it returned (False, 'Max retries exceeded') when
\* its attempts were used up.
C31_RequestTerminates ==
    /\ [](input.function = "_make_request" =>
            LET log == requests["manual"]
            IN  /\ Len(log) <= 3
                /\ \A k \in 1..(Len(log) - 1) :
                        /\ Retryable(log[k].response)
                        /\ log[k].response.kind = "timeout" => log[k].wait = 2 ^ (k - 1)
                        /\ log[k].response.status = 429 =>
                                log[k].wait = (IF log[k].response.retry_after = None THEN 5 ELSE log[k].response.retry_after)
                /\ \A k \in 1..Len(log) :
                        (log[k].response.kind = "status" /\ log[k].response.status \notin {200, 201, 429}) =>
                            /\ k = Len(log)
                            /\ output = <<Returned(FALSE, "text")>>
                /\ (Len(log) = 3 /\ Retryable(log[3].response) /\ log[3].response.retry_after # BadHeader) =>
                        output = <<Returned(FALSE, "Max retries exceeded")>>
                /\ (Len(log) > 0 /\ log[Len(log)].response.status \in {200, 201} /\ log[Len(log)].response.body_ok) =>
                        output = <<Returned(TRUE, "json")>>
                /\ Len(output) <= 1)
    /\ <>(Len(output) = 1)

\* Three attempts were used: a timeout, a 429 without Retry-After, a timeout.
C31_Witness ==
    /\ input.function = "_make_request"
    /\ Len(requests["manual"]) = 3
    /\ requests["manual"][1].response.kind = "timeout"
    /\ requests["manual"][2].response.status = 429
    /\ requests["manual"][2].wait = 5
    /\ requests["manual"][3].response.kind = "timeout"
    /\ output = <<Returned(FALSE, "Max retries exceeded")>>

\* _evaluate_trade of the scan loop's bot returned in this step, having read
\* no price for its trade.
EvaluatedUnpriced ==
    /\ pc["scan"] = "evaluate"
    /\ pc'["scan"] # pc["scan"] \/ queue'["scan"] # queue["scan"]
    /\ requests'["scan"] = <<[call |-> "get_price", trade_id |-> Head(queue["scan"]), price |-> None]>>

\* C32: an evaluation that gets no price for its position sends no close
\* request for it, leaves the trailing stops and the risk state as they
\* were, and the remaining open positions are evaluated next.
C32_UnpricedExitCheckSkipped ==
    [][EvaluatedUnpriced =>
        /\ pc'["scan"] # "closing"
        /\ trades' = trades
        /\ trailing_stops' = trailing_stops
        /\ trade_state' = trade_state
        /\ state_file' = state_file
        /\ closed_trades' = closed_trades
        /\ results'["scan"].errors = results["scan"].errors \/ pc'["scan"] = "idle"
        /\ Tail(queue["scan"]) # <<>> =>
                /\ pc'["scan"] = "evaluate"
                /\ queue'["scan"] = Tail(queue["scan"])]_vars

\* The first of two open positions had no price and the second one is the
\* next to be evaluated, the first still open at the broker.
C32_Witness ==
    /\ pc["scan"] = "evaluate"
    /\ queue["scan"] = <<2>>
    /\ requests["scan"] = <<[call |-> "get_price", trade_id |-> 1, price |-> None]>>
    /\ trades[1].status = "open"

\* C33: while the scan loop keeps running, prices stay available and the
\* broker confirms closes, every position that has been open longer than
\* max_trade_duration is eventually closed, in every risk state.
C33_OverdueExitsHappen ==
    \A t \in TradeIds :
        (trades[t].status = "open" /\ now - trades[t].openTime > max_trade_duration)
            ~> (trades[t].status # "open")

\* C34: an evaluation returns the 'Max loss exceeded' reason only when the
\* price is on the losing side of the entry: below it for a long position,
\* above it for a short one.
C34_LossCapOnlyOnLosingSide ==
    (Evaluated /\ output[1].reason = "Max loss exceeded") =>
        IF input.is_short THEN input.current_price > input.entry_price
        ELSE input.current_price < input.entry_price

\* C35: with the PositionSizer of the scan loop and the one of the manual
\* commands saving to the same trade_state.json, a cooldown stamp and an
\* open position that the file holds are still held, the stamp not older and
\* the position still counted unless a close was booked, by the state a
\* PositionSizer loads after any later save of either instance.
C35_NoLostUpdate ==
    [][state_file # <<>> =>
        LET loaded == load_state(state_file', Today(now'))
        IN  /\ \A i \in Instruments :
                    last_trade(state_file[1], i) # None =>
                        /\ last_trade(loaded, i) # None
                        /\ last_trade(loaded, i) >= last_trade(state_file[1], i)
            /\ (\A b \in Bots : ~CloseReturned(b)) =>
                    loaded.open_trades >= state_file[1].open_trades]_vars

\* C36: a risk state that is saved and loaded by a newly constructed
\* PositionSizer gives the same can_trade and calculate_units answers as
\* the state that was saved, for an instrument with or without recorded
\* performance, and calculate_units does not raise.
C36_RestartRoundTrip ==
    (input.function = "restart" /\ Len(output) = 2) =>
        /\ output[2] = output[1]
        /\ ~output[2].calculate_units.raised

\* C37: the scan loop submits no entry while its count of open positions is
\* already at its conservative limit, and after a scan cycle returned the
\* positions the loop opened do not exceed that limit.
C37_ScanLimitRespected ==
    /\ [](pc["scan"] = "idle" => trade_state["scan"].open_trades <= scan_open_limit)
    /\ [][(pc["scan"] = "sizing" /\ pc'["scan"] = "submit") =>
            trade_state["scan"].open_trades < scan_open_limit]_vars

\* C38: one scan cycle executes at most max_trades_per_scan entries: when an
\* execute_trade of the cycle returns with success, the entries the cycle
\* executed before it were fewer than max_trades_per_scan.
C38_EntriesPerScanBounded ==
    [][(pc["scan"] = "submit" /\ trade_state'["scan"].open_trades > trade_state["scan"].open_trades) =>
            results["scan"].trades_executed < max_trades_per_scan]_vars

\* The start() calls whose loop is running a scan cycle, or sleeps between
\* two cycles with no stop() asked of it.
ActiveLoops ==
    {i \in DOMAIN output : output[i].at = "cycle" \/ (output[i].at = "sleep" /\ ~output[i].asked)}

\* C39: under any sequence of start() and stop() calls on one TradingBot, at
\* most one scan loop is active, a start() while is_running is set changes
\* nothing, and a loop that was asked to stop begins no further cycle.
C39_AtMostOneLoop ==
    /\ [](input.function = "start" => Cardinality(ActiveLoops) <= 1)
    /\ [][(input.function = "start" /\ is_running["scan"] /\ calls' # calls /\ is_running'["scan"]) =>
            output' = output]_vars
    /\ [][input.function = "start" =>
            \A i \in DOMAIN output :
                (output[i].asked /\ output[i].at = "sleep") => output'[i].at # "cycle"]_vars

\* C40: every order the entry path submits has a strictly positive unit
\* count and, when a stop loss is attached, a stop-loss price strictly below
\* the price create_trade read.
C40_LongOrderStopBelowPrice ==
    (input.function = "execute_trade" /\ Len(output) = 1 /\ output[1].submitted) =>
        /\ output[1].units > 0
        /\ output[1].stopLossOnFill # None => output[1].stopLossOnFill < input.order_price

\* An order for a JPY-quoted instrument was submitted with a stop attached.
C40_Witness ==
    /\ input.function = "execute_trade"
    /\ Len(output) = 1
    /\ output[1].submitted
    /\ output[1].instrument = "USD_JPY"
    /\ output[1].stopLossOnFill # None
    /\ output[1].units > 1

====
